---- MODULE Spec2Model ----
(***************************************************************************)
(* A model of foobot's real-time dispatch engine: the command router and   *)
(* permission gate (bot.rs), the command-body interpreter                   *)
(* (command_handler.rs), the action registry (action_handler.rs), the      *)
(* outbound message queue and its consumer (bot.rs) and the redeem handler *)
(* of the event stream (pubsub.rs).                                        *)
(*                                                                         *)
(* Text.  A Rust String is a sequence of lexemes.  The lexemes "{", "}",   *)
(* "$", " ", "!" and the digits are single characters; every other lexeme  *)
(* ("ping", "bob", ...) stands for a run of letters, which the code always *)
(* handles one after the other in the same way (pushed onto the same       *)
(* buffer), except after '$', where only its first letter is read and the  *)
(* run ends with an error.                                                 *)
(***************************************************************************)
EXTENDS Integers, Sequences, FiniteSets, TLC

VARIABLES
    tasks,      \* the tasks spawned per chat line / per redeem frame
    commands,   \* table `commands` of the store: rows name, action, channel, permissions
    hitman,     \* table `hitman` of the store: rows channel, name, protected
    queue,      \* the mpsc channel msg_sender -> msg_receiver
    consumer,   \* Bot::listen_msg: its position, and the message it holds
    transport,  \* history: every message handed to the chat transport, and by whom
    enqueued,   \* history: every message accepted by the queue, in order
    main,       \* Bot::run: the number of channels already joined and announced
    pubsub,     \* the event-stream client: the loop of Bot::run around PubSubHandler::start
    jobs        \* JobRunner: the clock, table `spotify` and the refresh loops spawned

vars == <<tasks, commands, hitman, queue, consumer, transport, enqueued, main, pubsub, jobs>>

-----------------------------------------------------------------------------
(* Bounds of the model.                                                    *)

\* Number of tasks (chat lines and redeem frames) handled in one run.
MaxTasks == 2
\* Number of segments a command body of the interpreter specification is made of.
MaxSegs == 4
\* Consecutive failed connection attempts that are told apart.
MaxFails == 2
\* Subscription requests that are told apart.
MaxSubs == 2
\* Frames read on one connection that are told apart.
MaxFrames == 3
\* Heartbeat tasks that exist at the same time.
MaxPings == 2
\* The hitman invocations pending together for one target.
MaxPending == 2
\* The chat lines that add and delete commands at the same time.
MaxCmds == 3
\* The seconds of the clock the refresh loops are followed for.
MaxTime == 240

TaskIds == 1..MaxTasks

-----------------------------------------------------------------------------
(* Text helpers: str::join, str::split_whitespace, str::starts_with,       *)
(* char::to_digit, str::parse::<u64>.                                      *)

Digits == {"0", "1", "2", "3", "4", "5", "6", "7", "8", "9"}

IsDigit(ch) == ch \in Digits

\* ch.to_digit(10)
to_digit(ch) ==
    CASE ch = "0" -> 0 [] ch = "1" -> 1 [] ch = "2" -> 2 [] ch = "3" -> 3
      [] ch = "4" -> 4 [] ch = "5" -> 5 [] ch = "6" -> 6 [] ch = "7" -> 7
      [] ch = "8" -> 8 [] ch = "9" -> 9

\* args.join(" "): the elements with one " " between neighbours.
RECURSIVE join(_)
join(args) ==
    IF args = <<>> THEN <<>>
    ELSE IF Len(args) = 1 THEN Head(args)
    ELSE Head(args) \o <<" ">> \o join(Tail(args))

\* s.split_whitespace().collect(): the maximal runs without " ", none empty.
RECURSIVE split_ws(_, _, _)
split_ws(s, cur, acc) ==
    IF s = <<>> THEN (IF cur = <<>> THEN acc ELSE Append(acc, cur))
    ELSE IF Head(s) = " "
         THEN split_ws(Tail(s), <<>>, IF cur = <<>> THEN acc ELSE Append(acc, cur))
         ELSE split_ws(Tail(s), Append(cur, Head(s)), acc)

split_whitespace(s) == split_ws(s, <<>>, <<>>)

starts_with(s, p) == Len(s) >= Len(p) /\ SubSeq(s, 1, Len(p)) = p

strip_prefix(s, p) == SubSeq(s, Len(p) + 1, Len(s))

\* arg.parse::<u64>() succeeds: a non-empty run of digits.
parses_u64(s) == s # <<>> /\ \A i \in 1..Len(s) : IsDigit(s[i])

IsPrefix(s, t) == Len(s) <= Len(t) /\ SubSeq(t, 1, Len(s)) = s

-----------------------------------------------------------------------------
(* Result<Option<String>, CommandHandlerError>, and a panic of the task.   *)

OkSome(v) == [tag |-> "Ok", some |-> TRUE, val |-> v, kind |-> "", msg |-> ""]
OkNone == [tag |-> "Ok", some |-> FALSE, val |-> <<>>, kind |-> "", msg |-> ""]
Err(kind, msg) == [tag |-> "Err", some |-> FALSE, val |-> <<>>, kind |-> kind, msg |-> msg]
Panic == [tag |-> "Panic", some |-> FALSE, val |-> <<>>, kind |-> "", msg |-> ""]
NoResult == [tag |-> "None", some |-> FALSE, val |-> <<>>, kind |-> "", msg |-> ""]

ExecutionError(msg) == Err("ExecutionError", msg)
DBError == Err("DBError", "db")
ReqwestError == Err("ReqwestError", "reqwest")

-----------------------------------------------------------------------------
(* The interpreter of Action::Custom bodies: CommandHandler::run_command.  *)
(* Its local state: chars (the iterator: what is left of the body),        *)
(* response, and inside a block action and action_args.  status tells      *)
(* where the scan stopped: "call" at a '}' (the await of                   *)
(* action_handler.run), "ok" at the end of the body, "err" at a return     *)
(* Err.                                                                    *)

NewScan(body) ==
    [chars |-> body, response |-> <<>>, action |-> <<>>, action_args |-> <<>>,
     status |-> "scan", msg |-> ""]

ScanErr(st, m) == [st EXCEPT !.status = "err", !.msg = m]

\* A variant that puts the argument's text back in front of the scan instead.
PushArgRescan(st, args, num) ==
    IF num < Len(args)
    THEN [st EXCEPT !.chars = args[num + 1] \o @]
    ELSE ScanErr(st, "missing argument")

\* A variant that counts the caller's arguments from 1.
PushArgOneBased(st, args, num) ==
    IF num >= 1 /\ num <= Len(args)
    THEN [st EXCEPT !.action_args = Append(@, args[num])]
    ELSE ScanErr(st, "missing argument")

\* `$<digit>`: the caller's argument at that index, or the missing-argument error.
PushArg(st, args, num) ==
    IF num < Len(args)
    THEN [st EXCEPT !.action_args = Append(@, args[num + 1])]
    ELSE ScanErr(st, "missing argument")

\* A variant that passes the caller's arguments on one by one.
PushAllSeparate(st, args) == [st EXCEPT !.action_args = @ \o args]

\* `$$`: all the caller's arguments as a single argument.
PushAll(st, args) == [st EXCEPT !.action_args = Append(@, join(args))]

\* A variant with nested blocks: a '{' inside a block opens an inner one.
RECURSIVE ScanBlockNested(_, _)
ScanBlockNested(st, args) ==
    IF st.status # "scan" THEN st
    ELSE IF st.chars = <<>> THEN ScanErr(st, "closing } not found")
    ELSE LET ch == Head(st.chars)
             rest == Tail(st.chars)
         IN  CASE ch = "}" -> [st EXCEPT !.chars = rest, !.status = "call"]
               [] ch = "{" ->
                    ScanBlockNested([st EXCEPT !.chars = rest, !.action = <<>>,
                                               !.action_args = <<>>], args)
               [] ch = "$" ->
                    IF rest = <<>> THEN ScanErr(st, "missing variable")
                    ELSE LET v == Head(rest)
                             nx == [st EXCEPT !.chars = Tail(rest)]
                         IN  IF IsDigit(v)
                             THEN ScanBlockNested(PushArg(nx, args, to_digit(v)), args)
                             ELSE IF v = "$" THEN ScanBlockNested(PushAll(nx, args), args)
                             ELSE ScanErr(nx, "invalid variable")
               [] ch = " " -> ScanBlockNested([st EXCEPT !.chars = rest], args)
               [] OTHER ->
                    ScanBlockNested([st EXCEPT !.chars = rest, !.action = Append(@, ch)],
                                    args)

\* The inner `while let Some(ch) = chars.next()` of a block, up to its '}'.
RECURSIVE ScanBlock(_, _)
ScanBlock(st, args) ==
    IF st.status # "scan" THEN st
    ELSE IF st.chars = <<>> THEN ScanErr(st, "closing } not found")
    ELSE LET ch == Head(st.chars)
             rest == Tail(st.chars)
         IN  CASE ch = "}" -> [st EXCEPT !.chars = rest, !.status = "call"]
               [] ch = "$" ->
                    IF rest = <<>> THEN ScanErr(st, "missing variable")
                    ELSE LET v == Head(rest)
                             nx == [st EXCEPT !.chars = Tail(rest)]
                         IN  IF IsDigit(v) THEN ScanBlock(PushArg(nx, args, to_digit(v)), args)
                             ELSE IF v = "$" THEN ScanBlock(PushAll(nx, args), args)
                             ELSE ScanErr(nx, "invalid variable")
               [] ch = " " -> ScanBlock([st EXCEPT !.chars = rest], args)
               [] OTHER -> ScanBlock([st EXCEPT !.chars = rest, !.action = Append(@, ch)], args)

\* The `'outer` loop: copies characters to response until a '{' opens a block.
RECURSIVE ScanOuter(_, _)
ScanOuter(st, args) ==
    IF st.chars = <<>> THEN [st EXCEPT !.status = "ok"]
    ELSE LET ch == Head(st.chars)
             rest == Tail(st.chars)
         IN  IF ch = "{"
             THEN ScanBlock([st EXCEPT !.chars = rest, !.action = <<>>,
                                       !.action_args = <<>>], args)
             ELSE ScanOuter([st EXCEPT !.chars = rest, !.response = Append(@, ch)], args)

\* A variant that returns the response also when it is empty.
ScanResultAlways(st) ==
    IF st.status = "err" THEN ExecutionError(st.msg) ELSE OkSome(st.response)

\* What run_command returns when the scan has ended.
ScanResult(st) ==
    IF st.status = "err" THEN ExecutionError(st.msg)
    ELSE IF st.response # <<>> THEN OkSome(st.response) ELSE OkNone

-----------------------------------------------------------------------------
(* The action registry: ActionHandler::run.                                *)

Str(name) == <<name>>

\* Text that comes from outside the program (an integration's reply): either
\* plain, or holding the interpreter's own special characters.
ExtTexts == {<<"txt">>, <<"{", "ping", "}">>}

\* The actions that talk to the chat transport and the store step by step.
Stepwise == {Str("hitman"), Str("bodyguard"), Str("emoteonly")}

\* What a call of an action that touches neither transport nor hitman table
\* can return, per arm of the match in ActionHandler::run.
Outcomes(action, args) ==
    CASE action = Str("ping") -> {OkSome(<<"CPU">>)}
      [] action = Str("weather") ->
            IF args = <<>> THEN {OkSome(<<"location not specified">>)}
            ELSE {OkSome(x) : x \in ExtTexts} \cup {OkSome(<<"location not found">>)}
      [] action = Str("translate") ->
            IF args = <<>> THEN {Panic} ELSE {OkSome(x) : x \in ExtTexts}
      [] action = Str("spotify") ->
            {OkSome(<<"song">>), OkSome(<<"not configured for this channel">>),
             DBError, ReqwestError}
      [] action = Str("lastsong") ->
            {OkSome(<<"song">>), OkSome(<<"not configured for this channel">>),
             DBError, Panic}
      [] action = Str("commercial") ->
            IF args = <<>> \/ ~parses_u64(Head(args)) THEN {Panic}
            ELSE {OkSome(<<"Running an ad">>), OkSome(<<"Invalid ad duration">>),
                  ReqwestError}
      [] OTHER -> {ExecutionError("unknown action")}

-----------------------------------------------------------------------------
(* Tasks.  One task per chat line that carries the prefix                  *)
(* (Bot::handle_privmsg) and one per reward redemption                     *)
(* (PubSubHandler::handle_msg).                                            *)

NoPm == [channel |-> "", login |-> "", badges |-> {}, text |-> <<>>]

NoCmd == [action |-> "None", body |-> <<>>, permissions |-> "", trigger |-> <<>>,
          channel |-> ""]

Custom(trigger, body, channel, permissions) ==
    [action |-> "Custom", body |-> body, permissions |-> permissions,
     trigger |-> trigger, channel |-> channel]

BuiltIn(name, action, channel, permissions) ==
    [action |-> action, body |-> <<>>, permissions |-> permissions,
     trigger |-> Str(name), channel |-> channel]

IdleTask ==
    [pc |-> "idle", kind |-> "", pm |-> NoPm, args |-> <<>>, cmd |-> NoCmd,
     gate |-> "none", it |-> NewScan(<<>>), outcome |-> NoResult,
     result |-> NoResult,
     calls |-> <<>>,    \* history: the registry calls of this task, in order
     rets |-> <<>>,     \* history: the texts those calls returned, in order
     open |-> 0,        \* history: registry calls begun and not yet returned
     writes |-> 0,      \* history: store mutations made for this task
     lookups |-> 0,     \* history: store queries made to resolve the trigger
     seen |-> {},       \* history: the hitman invocations pending at a bodyguard's write
     begun |-> {},      \* history: the hitman invocations called before a bodyguard's write
     flag |-> "none",   \* history: what a hitman invocation read of the protection flag
     puts |-> 0]        \* history: messages this task has put on the queue

\* The task after a piece of the scan: at the await of a registry call, or
\* with run_command's return value.
Resume(task, st) ==
    [task EXCEPT !.it = st,
                 !.pc = IF st.status = "call" THEN "action_run" ELSE "returned",
                 !.result = IF st.status = "call" THEN NoResult ELSE ScanResult(st)]

\* run_command, arm Action::Custom, from its start to the first await or return.
run_command_Custom(t) ==
    /\ tasks[t].pc = "run_command"
    /\ tasks[t].cmd.action = "Custom"
    /\ tasks' = [tasks EXCEPT
           ![t] = Resume(@, ScanOuter(NewScan(tasks[t].cmd.body), tasks[t].args))]
    /\ UNCHANGED <<commands, hitman, queue, consumer, transport, enqueued, main, pubsub, jobs>>

\* The call self.action_handler.run(&action, &action_args, ...) at a '}'.
run(t) ==
    /\ tasks[t].pc = "action_run"
    /\ LET action == tasks[t].it.action
           args == tasks[t].it.action_args
           called == [tasks[t] EXCEPT
                         !.calls = Append(@, [name |-> action, args |-> args]),
                         !.open = @ + 1]
       IN  IF action \in Stepwise
           THEN tasks' = [tasks EXCEPT ![t] =
                    IF args = <<>>      \* args.first().unwrap()
                    THEN [called EXCEPT !.pc = "action_ret", !.outcome = Panic]
                    ELSE IF action = Str("emoteonly") /\ ~parses_u64(Head(args))
                    THEN [called EXCEPT !.pc = "action_ret",
                                        !.outcome = ExecutionError("invalid duration")]
                    ELSE [called EXCEPT !.pc = action[1]]]
           ELSE \E o \in Outcomes(action, args) :
                    tasks' = [tasks EXCEPT ![t] =
                        [called EXCEPT !.pc = "action_ret", !.outcome = o]]
    /\ UNCHANGED <<commands, hitman, queue, consumer, transport, enqueued, main, pubsub, jobs>>

\* A variant that leaves the outer loop after the first successful call.
ActionReturnBreak(t) ==
    /\ tasks[t].pc = "action_ret"
    /\ LET o == tasks[t].outcome
           back == [tasks[t] EXCEPT !.open = @ - 1, !.outcome = NoResult,
                                    !.rets = IF o.tag = "Ok" THEN Append(@, o.val) ELSE @]
       IN  tasks' = [tasks EXCEPT ![t] =
               CASE o.tag = "Ok" ->
                        Resume(back, [back.it EXCEPT !.status = "ok",
                                                     !.response = @ \o o.val])
                 [] o.tag = "Err" -> [back EXCEPT !.pc = "returned", !.result = o]
                 [] OTHER -> [back EXCEPT !.pc = "panicked", !.result = Panic]]
    /\ UNCHANGED <<commands, hitman, queue, consumer, transport, enqueued, main, pubsub, jobs>>

\* A variant that puts the action's text in front of the response.
ActionReturnFront(t) ==
    /\ tasks[t].pc = "action_ret"
    /\ LET o == tasks[t].outcome
           back == [tasks[t] EXCEPT !.open = @ - 1, !.outcome = NoResult,
                                    !.rets = IF o.tag = "Ok" THEN Append(@, o.val) ELSE @]
       IN  tasks' = [tasks EXCEPT ![t] =
               CASE o.tag = "Ok" ->
                        Resume(back, ScanOuter(
                            [back.it EXCEPT !.status = "scan",
                                            !.response = o.val \o @],
                            back.args))
                 [] o.tag = "Err" -> [back EXCEPT !.pc = "returned", !.result = o]
                 [] OTHER -> [back EXCEPT !.pc = "panicked", !.result = Panic]]
    /\ UNCHANGED <<commands, hitman, queue, consumer, transport, enqueued, main, pubsub, jobs>>

\* The match on the call's result: push the text and `continue 'outer`, or
\* return the error; a panic inside the action ends the task.
ActionReturn(t) ==
    /\ tasks[t].pc = "action_ret"
    /\ LET o == tasks[t].outcome
           back == [tasks[t] EXCEPT !.open = @ - 1, !.outcome = NoResult,
                                    !.rets = IF o.tag = "Ok" THEN Append(@, o.val) ELSE @]
       IN  tasks' = [tasks EXCEPT ![t] =
               CASE o.tag = "Ok" ->
                        Resume(back, ScanOuter(
                            [back.it EXCEPT !.status = "scan",
                                            !.response = @ \o o.val],
                            back.args))
                 [] o.tag = "Err" -> [back EXCEPT !.pc = "returned", !.result = o]
                 [] OTHER -> [back EXCEPT !.pc = "panicked", !.result = Panic]]
    /\ UNCHANGED <<commands, hitman, queue, consumer, transport, enqueued, main, pubsub, jobs>>

-----------------------------------------------------------------------------
(* The permission gate: Bot::check_command_permissions.                    *)

Permissions == {"All", "Subs", "Mods", "Super"}

\* Permissions::from_string
from_string(s) ==
    CASE s = "all" -> "All" [] s = "subs" -> "Subs" [] s = "mods" -> "Mods"
      [] s = "super" -> "Super"

\* A variant in which the Mods arm was copied from the Subs arm.
check_command_permissionsCopied(pm, permissions) ==
    CASE permissions = "All" -> TRUE
      [] permissions = "Super" -> pm.login = "boring_nick"
      [] permissions = "Mods" ->
            \/ "broadcaster" \in pm.badges
            \/ "moderator" \in pm.badges
            \/ "subscriber" \in pm.badges
      [] permissions = "Subs" ->
            \/ "broadcaster" \in pm.badges
            \/ "moderator" \in pm.badges
            \/ "subscriber" \in pm.badges

check_command_permissions(pm, permissions) ==
    CASE permissions = "All" -> TRUE
      [] permissions = "Super" -> pm.login = "boring_nick"
      [] permissions = "Mods" ->
            \/ "broadcaster" \in pm.badges
            \/ "moderator" \in pm.badges
      [] permissions = "Subs" ->
            \/ "broadcaster" \in pm.badges
            \/ "moderator" \in pm.badges
            \/ "subscriber" \in pm.badges

\* A variant that records the verdict and runs the command all the same.
GateEvalNoBranch(t) ==
    /\ tasks[t].pc = "gate"
    /\ tasks' = [tasks EXCEPT ![t] =
           [@ EXCEPT !.gate = IF check_command_permissions(tasks[t].pm,
                                                            tasks[t].cmd.permissions)
                               THEN "allowed" ELSE "denied",
                     !.pc = "run_command"]]
    /\ UNCHANGED <<commands, hitman, queue, consumer, transport, enqueued, main, pubsub, jobs>>

\* handle_privmsg, the `if Self::check_command_permissions(&pm, &cmd.permissions)`.
GateEval(t) ==
    /\ tasks[t].pc = "gate"
    /\ tasks' = [tasks EXCEPT ![t] =
           IF check_command_permissions(@.pm, @.cmd.permissions)
           THEN [@ EXCEPT !.gate = "allowed", !.pc = "run_command"]
           ELSE [@ EXCEPT !.gate = "denied", !.pc = "deny"]]
    /\ UNCHANGED <<commands, hitman, queue, consumer, transport, enqueued, main, pubsub, jobs>>

-----------------------------------------------------------------------------
(* The store (db.rs).  A row of `commands` is name, action, channel,       *)
(* permissions; a row of `hitman` is channel, name, protected.             *)

Row(name, action, channel, permissions) ==
    [name |-> name, action |-> action, channel |-> channel, permissions |-> permissions]

HasCommand(name, channel) ==
    \E r \in commands : r.name = name /\ r.channel = channel

\* DBConn::get_command: the first row selected, as a Command.
db_get_command(trigger, channel) ==
    IF HasCommand(trigger, channel)
    THEN LET r == CHOOSE r \in commands : r.name = trigger /\ r.channel = channel
         IN  Custom(trigger, r.action, channel, from_string(r.permissions))
    ELSE NoCmd

\* CommandHandler::get_command: the fixed table first, then the store.
IsBuiltIn(trigger) ==
    trigger \in {Str("ping"), Str("addcmd"), Str("showcmd"), Str("help"),
                 Str("commands"), Str("delcmd"), Str("join"), Str("part")}

BuiltInCommand(trigger, channel) ==
    CASE trigger = Str("ping") -> Custom(Str("ping"), <<"{", "ping", "}">>, channel, "All")
      [] trigger = Str("addcmd") -> BuiltIn("addcmd", "AddCmd", channel, "Mods")
      [] trigger = Str("showcmd") -> BuiltIn("showcmd", "ShowCmd", channel, "All")
      [] trigger \in {Str("help"), Str("commands")} ->
            BuiltIn("commands", "ListCmd", channel, "All")
      [] trigger = Str("delcmd") -> BuiltIn("delcmd", "DelCmd", channel, "Mods")
      [] trigger = Str("join") -> BuiltIn("join", "Join", channel, "Super")
      [] trigger = Str("part") -> BuiltIn("part", "Part", channel, "Super")
      [] OTHER -> NoCmd

\* What get_command gives: the command (NoCmd for none), and the number of
\* queries it made to the store.
Resolved(cmd, queries) == [cmd |-> cmd, queries |-> queries]

\* A variant that asks the store first and falls back to the fixed table.
get_commandStoreFirst(trigger, channel) ==
    IF HasCommand(trigger, channel)
    THEN Resolved(db_get_command(trigger, channel), 1)
    ELSE Resolved(BuiltInCommand(trigger, channel), 1)

\* The `match trigger`: a built-in's arm, or `_ => self.db_conn.get_command(..)`.
get_command(trigger, channel) ==
    IF IsBuiltIn(trigger)
    THEN Resolved(BuiltInCommand(trigger, channel), 0)
    ELSE Resolved(db_get_command(trigger, channel), 1)

\* The key of table `commands`: the store refuses a second row for the same
\* (name, channel) with error 1062, which db.rs maps to AlreadyExists.
DuplicateKey(name, channel) == HasCommand(name, channel)

\* A variant that overwrites the row of an existing key (an upsert).
db_add_commandUpsert(trigger, action, channel, permissions) ==
    [err |-> "",
     rows |-> {r \in commands : ~(r.name = trigger /\ r.channel = channel)}
                 \cup {Row(trigger, action, channel, permissions)}]

\* A variant whose insert is not held back by the key.
db_add_commandBlind(trigger, action, channel, permissions) ==
    [err |-> "", rows |-> commands \cup {Row(trigger, action, channel, permissions)}]

\* DBConn::add_command: INSERT INTO commands VALUES (...); the error of the
\* insert, if any, and the rows afterwards.
db_add_command(trigger, action, channel, permissions) ==
    IF DuplicateKey(trigger, channel)
    THEN [err |-> "AlreadyExists", rows |-> commands]
    ELSE [err |-> "", rows |-> commands \cup {Row(trigger, action, channel, permissions)}]

\* A variant that reads the row keyed the other way round.
get_hitman_protectedSwapped(username, channel) ==
    \E r \in hitman : r.channel = username /\ r.name = channel /\ r.protected

\* DBConn::get_hitman_protected: the row's flag, false when there is no row.
get_hitman_protected(username, channel) ==
    \E r \in hitman : r.channel = channel /\ r.name = username /\ r.protected

\* A variant that updates the row and inserts none.
set_hitman_protectionUpdateOnly(username, channel, protection) ==
    {IF r.channel = channel /\ r.name = username
     THEN [r EXCEPT !.protected = protection] ELSE r : r \in hitman}

\* DBConn::set_hitman_protection: INSERT ... ON DUPLICATE KEY UPDATE protected.
set_hitman_protection(username, channel, protection) ==
    {r \in hitman : ~(r.channel = channel /\ r.name = username)}
        \cup {[channel |-> channel, name |-> username, protected |-> protection]}

\* DBConn::add_hitman: INSERT ... ON DUPLICATE KEY UPDATE completed; an
\* existing row keeps its protected flag.
add_hitman(username, channel) ==
    IF \E r \in hitman : r.channel = channel /\ r.name = username
    THEN hitman
    ELSE hitman \cup {[channel |-> channel, name |-> username, protected |-> FALSE]}

-----------------------------------------------------------------------------
(* The outbound queue: mpsc::channel(1000), its producers' send and its    *)
(* consumer Bot::listen_msg.                                               *)

QueueCapacity == 1000

Msg(kind, channel, text, from) ==
    [kind |-> kind, channel |-> channel, text |-> text, from |-> from]

NoMsg == Msg("", "", <<>>, 0)

\* The receiver is dropped when the consumer's task has ended.
ReceiverDropped == consumer.pc = "panicked"

\* msg_sender.send(m).await on a live channel: waits for room, then puts m last.
\* A variant of a sender that does not wait for room.
CanPutAlways == ~ReceiverDropped
CanPut == ~ReceiverDropped /\ Len(queue) < QueueCapacity

Put(m) ==
    /\ queue' = Append(queue, m)
    /\ enqueued' = Append(enqueued, m)

\* A send of a message to the chat transport by `by`.
Sent(by, m) == transport' = Append(transport, [by |-> by, msg |-> m])

\* A variant of the consumer's receive that takes the newest message.
listen_recvNewest ==
    /\ consumer.pc = "recv"
    /\ queue # <<>>
    /\ consumer' = [consumer EXCEPT !.pc = "send", !.msg = queue[Len(queue)]]
    /\ queue' = SubSeq(queue, 1, Len(queue) - 1)
    /\ UNCHANGED <<tasks, commands, hitman, transport, enqueued, main, pubsub, jobs>>

\* listen_msg: `while let Some(msg) = receiver.recv().await`.
listen_recv ==
    /\ consumer.pc = "recv"
    /\ queue # <<>>
    /\ consumer' = [consumer EXCEPT !.pc = "send", !.msg = Head(queue)]
    /\ queue' = Tail(queue)
    /\ UNCHANGED <<tasks, commands, hitman, transport, enqueued, main, pubsub, jobs>>

\* listen_msg: client.say / reply_to_privmsg / privmsg succeeds.
listen_send ==
    /\ consumer.pc = "send"
    /\ Sent("listen_msg", consumer.msg)
    /\ consumer' = [consumer EXCEPT !.pc = "sleep", !.msg = NoMsg]
    /\ UNCHANGED <<tasks, commands, hitman, queue, enqueued, main, pubsub, jobs>>

\* listen_msg: the send fails and `.expect(...)` panics; the task ends, the
\* receiver is dropped and with it what the queue held.
listen_send_fails ==
    /\ consumer.pc = "send"
    /\ consumer' = [consumer EXCEPT !.pc = "panicked", !.msg = NoMsg, !.failed = TRUE]
    /\ queue' = <<>>
    /\ UNCHANGED <<tasks, commands, hitman, transport, enqueued, main, pubsub, jobs>>

\* listen_msg: tokio::time::sleep(Duration::from_millis(1000)) is over.
listen_sleep ==
    /\ consumer.pc = "sleep"
    /\ consumer' = [consumer EXCEPT !.pc = "recv"]
    /\ UNCHANGED <<tasks, commands, hitman, queue, transport, enqueued, main, pubsub, jobs>>

-----------------------------------------------------------------------------
(* Bot::run: joins the channels and announces the start on each.           *)

Channels == <<"chan">>

Prefixes == [c \in {"chan"} |-> <<"!">>]

Started == <<"AlienPls Bot started AlienPls">>

\* client.join(channel)
Join ==
    /\ main.pc = "join"
    /\ main.i < Len(Channels)
    /\ main' = [main EXCEPT !.pc = "announce", !.i = @ + 1]
    /\ UNCHANGED <<tasks, commands, hitman, queue, consumer, transport, enqueued, pubsub, jobs>>

\* msg_sender.send(SendMsg::Say((channel, "... Bot started ..."))).await.expect(..)
Announce ==
    /\ main.pc = "announce"
    /\ IF ReceiverDropped
       THEN /\ main' = [main EXCEPT !.pc = "panicked"]
            /\ UNCHANGED <<queue, enqueued>>
       ELSE /\ CanPut
            /\ Put(Msg("Say", Channels[main.i], Started, 0))
            /\ main' = [main EXCEPT !.pc = IF main.i < Len(Channels) THEN "join" ELSE "done"]
    /\ UNCHANGED <<tasks, commands, hitman, consumer, transport, pubsub, jobs>>

Joined == {Channels[i] : i \in 1..main.i}

-----------------------------------------------------------------------------
(* The command router: Bot::handle_privmsg and the task it spawns.         *)

\* A variant that takes the prefix wherever it is in the line.
parse_commandAnywhere(msg, channel) ==
    IF \E i \in 1..Len(msg) : starts_with(SubSeq(msg, i, Len(msg)), Prefixes[channel])
    THEN LET i == CHOOSE i \in 1..Len(msg) :
                      starts_with(SubSeq(msg, i, Len(msg)), Prefixes[channel])
         IN  [some |-> TRUE, val |-> strip_prefix(SubSeq(msg, i, Len(msg)), Prefixes[channel])]
    ELSE [some |-> FALSE, val |-> <<>>]

\* Bot::parse_command
parse_command(msg, channel) ==
    IF starts_with(msg, Prefixes[channel])
    THEN [some |-> TRUE, val |-> strip_prefix(msg, Prefixes[channel])]
    ELSE [some |-> FALSE, val |-> <<>>]

\* The chat lines of the model (message_text), and who sends them.
Texts ==
    {<<"hello">>,
     <<"say", " ", "!", "hi">>,
     <<"!", "ping">>,
     <<"!", "hi">>,
     <<"!", "hit", " ", "bob">>,
     <<"!", "guard", " ", "bob">>,
     <<"!", "bad", " ", "bob">>,
     <<"!", "emote", " ", "1">>,
     <<"!", "addcmd", " ", "hi", " ", "{", "ping", "}">>,
     <<"!", "song">>,
     <<"!", "nosuch">>}

Senders ==
    {[login |-> "alice", badges |-> {}],
     [login |-> "mod", badges |-> {"moderator"}]}

\* The rows of `commands` at the start; `!addcmd ping pong` has put a row
\* there that bears a built-in's name (its permission set by hand).
StoredCommands ==
    {Row(Str("hi"), <<"hi", " ", "there">>, "chan", "all"),
     Row(Str("hit"), <<"{", "hitman", " ", "$", "0", "}">>, "chan", "all"),
     Row(Str("guard"), <<"{", "bodyguard", " ", "$", "0", "}">>, "chan", "mods"),
     Row(Str("bad"), <<"x", "{", "bodyguard", " ", "$", "0", "}", "{", "ping">>,
         "chan", "all"),
     Row(Str("emote"), <<"{", "emoteonly", " ", "$", "0", "}">>, "chan", "mods"),
     Row(Str("song"), <<"{", "spotify", "}">>, "chan", "all"),
     Row(Str("ping"), <<"pong">>, "chan", "mods")}

\* The next free task.
Free(t) == tasks[t].pc = "idle" /\ \A u \in TaskIds : u < t => tasks[u].pc # "idle"

\* handle_privmsg: a line of a joined channel arrives; with the prefix it gets
\* a task, without it nothing happens.
handle_privmsg(t) ==
    /\ Free(t)
    /\ \E channel \in Joined, text \in Texts, sender \in Senders :
          LET pm == [channel |-> channel, login |-> sender.login,
                     badges |-> sender.badges, text |-> text]
          IN  tasks' = [tasks EXCEPT ![t] =
                  [@ EXCEPT !.kind = "privmsg", !.pm = pm,
                            !.pc = IF parse_command(text, channel).some
                                   THEN "spawned" ELSE "ignored"]]
    /\ UNCHANGED <<commands, hitman, queue, consumer, transport, enqueued, main, pubsub, jobs>>

\* The spawned task up to the permission check: split_whitespace,
\* split_first().unwrap(), command_handler.get_command.
Dispatch(t) ==
    /\ tasks[t].pc = "spawned"
    /\ LET split == split_whitespace(parse_command(tasks[t].pm.text, tasks[t].pm.channel).val)
       IN  IF split = <<>>
           THEN tasks' = [tasks EXCEPT ![t] = [@ EXCEPT !.pc = "panicked", !.result = Panic]]
           ELSE LET trigger == Head(split)
                    found == get_command(trigger, tasks[t].pm.channel)
                    cmd == found.cmd
                IN  tasks' = [tasks EXCEPT ![t] =
                        [@ EXCEPT !.args = Tail(split), !.cmd = cmd,
                                  !.lookups = @ + found.queries,
                                  !.pc = IF cmd = NoCmd THEN "done" ELSE "gate"]]
    /\ UNCHANGED <<commands, hitman, queue, consumer, transport, enqueued, main, pubsub, jobs>>

\* Dispatch when the store fails: get_command is Err(err), which is printed.
DispatchStoreFails(t) ==
    /\ tasks[t].pc = "spawned"
    /\ LET split == split_whitespace(parse_command(tasks[t].pm.text, tasks[t].pm.channel).val)
       IN  /\ split # <<>>
           /\ ~IsBuiltIn(Head(split))
           /\ tasks' = [tasks EXCEPT ![t] =
                  [@ EXCEPT !.args = Tail(split), !.pc = "done", !.result = DBError,
                            !.lookups = @ + 1]]
    /\ UNCHANGED <<commands, hitman, queue, consumer, transport, enqueued, main, pubsub, jobs>>

\* format!("... \"{}\" ...", trigger)
Quoted(before, trigger, after) == <<before>> \o trigger \o <<after>>

\* run_command, the arms of the built-in actions: one store call each.
run_command_BuiltIn(t) ==
    /\ tasks[t].pc = "run_command"
    /\ tasks[t].cmd.action \notin {"Custom", "None"}
    /\ LET args == tasks[t].args
           channel == tasks[t].cmd.channel
           ret(r, w) == [tasks EXCEPT ![t] =
                            [@ EXCEPT !.pc = "returned", !.result = r, !.writes = @ + w]]
       IN  CASE tasks[t].cmd.action = "AddCmd" ->
                  IF args = <<>>
                  THEN /\ tasks' = ret(OkSome(<<"missing arguments">>), 0)
                       /\ UNCHANGED commands
                  ELSE \/ LET ins == db_add_command(Head(args), join(Tail(args)),
                                                     channel, "all")
                          IN  /\ commands' = ins.rows
                              /\ tasks' =
                                   IF ins.err = "AlreadyExists"
                                   THEN ret(OkSome(Quoted("command \"", Head(args),
                                                          "\" already exists")), 0)
                                   ELSE ret(OkSome(Quoted("successfully added command \"",
                                                          Head(args), "\"")), 1)
                       \/ /\ tasks' = ret(DBError, 0)
                          /\ UNCHANGED commands
             [] tasks[t].cmd.action = "DelCmd" ->
                  IF args = <<>>
                  THEN /\ tasks' = ret(OkSome(<<"missing command">>), 0)
                       /\ UNCHANGED commands
                  ELSE \/ IF ~HasCommand(Head(args), channel)    \* affected_rows 0
                          THEN /\ tasks' = ret(OkSome(Quoted("command \"", Head(args),
                                                                 "\" not found")), 0)
                               /\ UNCHANGED commands
                          ELSE /\ commands' = {r \in commands :
                                                 ~(r.name = Head(args) /\ r.channel = channel)}
                               /\ tasks' = ret(OkSome(Quoted("successfully removed command \"",
                                                              Head(args), "\"")), 1)
                       \/ /\ tasks' = ret(DBError, 0)
                          /\ UNCHANGED commands
             [] tasks[t].cmd.action = "ShowCmd" ->
                  /\ UNCHANGED commands
                  /\ IF args = <<>>
                     THEN tasks' = ret(OkSome(<<"command not specified">>), 0)
                     ELSE \/ tasks' = ret(
                                IF HasCommand(Head(args), channel)
                                THEN OkSome(db_get_command(Head(args), channel).body)
                                ELSE OkSome(<<"no such command">>), 0)
                          \/ tasks' = ret(DBError, 0)
             [] tasks[t].cmd.action = "ListCmd" ->
                  /\ UNCHANGED commands
                  /\ \/ tasks' = ret(OkSome(<<"Custom commands: ">>), 0)
                     \/ tasks' = ret(DBError, 0)
             [] OTHER -> \* Join, Part
                  /\ UNCHANGED commands
                  /\ tasks' = ret(OkNone, 0)
    /\ UNCHANGED <<hitman, queue, consumer, transport, enqueued, main, pubsub, jobs>>

\* The reply to a chat line: what handle_privmsg sends for run_command's result.
ReplyText(r) ==
    CASE r.tag = "Ok" -> r.val
      [] r.kind = "ExecutionError" -> <<"Execution error error: ", r.msg>>
      [] OTHER -> <<"DB error: ", r.msg>>

\* handle_privmsg after run_command: the match on its result.  Sending on a
\* channel whose receiver is gone fails and `.expect(...)` panics; so does
\* the `unreachable!()` arm of the other errors.
Respond(t) ==
    /\ tasks[t].pc = "returned"
    /\ tasks[t].kind = "privmsg"
    /\ LET r == tasks[t].result
       IN  IF r.tag = "Ok" /\ ~r.some
           THEN /\ tasks' = [tasks EXCEPT ![t] = [@ EXCEPT !.pc = "done"]]
                /\ UNCHANGED <<queue, enqueued>>
           ELSE IF ReceiverDropped \/ (r.tag = "Err" /\ r.kind \notin {"ExecutionError", "DBError"})
           THEN /\ tasks' = [tasks EXCEPT ![t] = [@ EXCEPT !.pc = "panicked"]]
                /\ UNCHANGED <<queue, enqueued>>
           ELSE /\ CanPut
                /\ Put(Msg("Reply", tasks[t].pm.channel, ReplyText(r), t))
                /\ tasks' = [tasks EXCEPT ![t] = [@ EXCEPT !.pc = "done", !.puts = @ + 1]]
    /\ UNCHANGED <<commands, hitman, consumer, transport, main, pubsub, jobs>>

Denial == <<"you do not have the permissions to use this command!">>

\* A variant in which the denial does not end the invocation.
DenyFallsThrough(t) ==
    /\ tasks[t].pc = "deny"
    /\ IF ReceiverDropped
       THEN /\ tasks' = [tasks EXCEPT ![t] = [@ EXCEPT !.pc = "panicked"]]
            /\ UNCHANGED <<queue, enqueued>>
       ELSE /\ CanPut
            /\ Put(Msg("Reply", tasks[t].pm.channel, Denial, t))
            /\ tasks' = [tasks EXCEPT ![t] = [@ EXCEPT !.pc = "run_command", !.puts = @ + 1]]
    /\ UNCHANGED <<commands, hitman, consumer, transport, main, pubsub, jobs>>

\* handle_privmsg, the else of the permission check.
Deny(t) ==
    /\ tasks[t].pc = "deny"
    /\ IF ReceiverDropped
       THEN /\ tasks' = [tasks EXCEPT ![t] = [@ EXCEPT !.pc = "panicked"]]
            /\ UNCHANGED <<queue, enqueued>>
       ELSE /\ CanPut
            /\ Put(Msg("Reply", tasks[t].pm.channel, Denial, t))
            /\ tasks' = [tasks EXCEPT ![t] = [@ EXCEPT !.pc = "done", !.puts = @ + 1]]
    /\ UNCHANGED <<commands, hitman, consumer, transport, main, pubsub, jobs>>

-----------------------------------------------------------------------------
(* The actions that send to the chat transport themselves:                 *)
(* ActionHandler::hitman, bodyguard and emote_only.  The task's pc names   *)
(* the statement it is at.                                                 *)

User(t) == Head(tasks[t].it.action_args)

\* run_command's `channel`, as the text the hitman table holds.
Chan(t) == Str(tasks[t].cmd.channel)

\* The task with the action's return value, back in run_command.
Returns(task, o) == [task EXCEPT !.pc = "action_ret", !.outcome = o]

\* hitman: self.db_conn.add_hitman(channel, user)?  -- add_hitman's
\* parameters are (username, channel), so the row is keyed the other way round.
hitman_add(t) ==
    /\ tasks[t].pc = "hitman"
    /\ hitman' = add_hitman(Chan(t), User(t))
    /\ tasks' = [tasks EXCEPT ![t] = [@ EXCEPT !.pc = "hitman_say", !.writes = @ + 1]]
    /\ UNCHANGED <<commands, queue, consumer, transport, enqueued, main, pubsub, jobs>>

\* hitman: after sleep(15 s), self.db_conn.get_hitman_protected(user, channel)?
hitman_check(t) ==
    /\ tasks[t].pc = "hitman_sleep"
    /\ tasks' = [tasks EXCEPT ![t] =
           [@ EXCEPT !.pc = IF get_hitman_protected(User(t), Chan(t))
                            THEN "hitman_guarded" ELSE "hitman_timeout",
                     !.flag = IF get_hitman_protected(User(t), Chan(t))
                              THEN "set" ELSE "unset"]]
    /\ UNCHANGED <<commands, hitman, queue, consumer, transport, enqueued, main, pubsub, jobs>>

\* hitman: self.db_conn.set_hitman_protection(user, channel, &false)? in
\* either arm, and the arm's return value.
hitman_unset(t) ==
    /\ tasks[t].pc \in {"hitman_guarded", "hitman_timed_out"}
    /\ hitman' = set_hitman_protection(User(t), Chan(t), FALSE)
    /\ tasks' = [tasks EXCEPT ![t] =
           Returns([@ EXCEPT !.writes = @ + 1],
                   IF tasks[t].pc = "hitman_guarded" THEN OkSome(<<>>)
                   ELSE OkSome(User(t) \o <<" timed out for 10 minutes!">>))]
    /\ UNCHANGED <<commands, queue, consumer, transport, enqueued, main, pubsub, jobs>>

\* bodyguard: self.db_conn.set_hitman_protection(user, channel, &true)?
bodyguard_set(t) ==
    /\ tasks[t].pc = "bodyguard"
    /\ hitman' = set_hitman_protection(User(t), Chan(t), TRUE)
    /\ tasks' = [tasks EXCEPT ![t] =
           [@ EXCEPT !.pc = "bodyguard_say", !.writes = @ + 1,
                     !.seen = {u \in DOMAIN tasks :
                                  /\ tasks[u].pc \in {"hitman_say", "hitman_sleep"}
                                  /\ tasks[u].it.action_args = tasks[t].it.action_args
                                  /\ tasks[u].cmd.channel = tasks[t].cmd.channel},
                     !.begun = {u \in DOMAIN tasks :
                                  /\ \E i \in 1..Len(tasks[u].calls) :
                                        tasks[u].calls[i].name = Str("hitman")
                                  /\ tasks[u].it.action_args = tasks[t].it.action_args
                                  /\ tasks[u].cmd.channel = tasks[t].cmd.channel}]]
    /\ UNCHANGED <<commands, queue, consumer, transport, enqueued, main, pubsub, jobs>>

\* A store call of hitman or bodyguard fails: `?` returns the DBError.
ActionStoreFails(t) ==
    /\ tasks[t].pc \in {"hitman", "hitman_sleep", "hitman_guarded", "hitman_timed_out",
                        "bodyguard"}
    /\ tasks' = [tasks EXCEPT ![t] = Returns(@, DBError)]
    /\ UNCHANGED <<commands, hitman, queue, consumer, transport, enqueued, main, pubsub, jobs>>

\* The client.say / client.privmsg of each statement: the message, and the
\* task after it.
DirectMsg(t) ==
    LET channel == tasks[t].cmd.channel
        pc == tasks[t].pc
    IN  CASE pc = "hitman_say" ->
                Msg("Say", channel, <<"Timing out ">> \o User(t) \o <<" in 15 seconds...">>, t)
          [] pc = "hitman_timeout" ->
                Msg("Raw", channel, <<"/timeout ">> \o User(t) \o <<" 600">>, t)
          [] pc = "bodyguard_say" ->
                Msg("Say", channel, User(t) \o <<" has been guarded!">>, t)
          [] pc = "emoteonly" ->
                Msg("Say", channel, <<"Emote-only enabled for ">> \o User(t) \o <<" seconds!">>, t)
          [] pc = "emoteonly_on" -> Msg("Raw", channel, <<"/emoteonly">>, t)
          [] pc = "emoteonly_sleep" -> Msg("Raw", channel, <<"/emoteonlyoff">>, t)

AfterDirect(task) ==
    CASE task.pc = "hitman_say" -> [task EXCEPT !.pc = "hitman_sleep"]
      [] task.pc = "hitman_timeout" -> [task EXCEPT !.pc = "hitman_timed_out"]
      [] task.pc = "bodyguard_say" -> Returns(task, OkSome(<<>>))
      [] task.pc = "emoteonly" -> [task EXCEPT !.pc = "emoteonly_on"]
      [] task.pc = "emoteonly_on" -> [task EXCEPT !.pc = "emoteonly_sleep"]
      [] task.pc = "emoteonly_sleep" -> Returns(task, OkNone)

DirectPcs == {"hitman_say", "hitman_timeout", "bodyguard_say", "emoteonly",
              "emoteonly_on", "emoteonly_sleep"}

\* client.say(...).await / client.privmsg(...).await inside an action.
DirectSend(t) ==
    /\ tasks[t].pc \in DirectPcs
    /\ Sent("action", DirectMsg(t))
    /\ tasks' = [tasks EXCEPT ![t] = AfterDirect(@)]
    /\ UNCHANGED <<commands, hitman, queue, consumer, enqueued, main, pubsub, jobs>>

\* The same send fails: `.expect(...)` panics inside the action.
DirectSendFails(t) ==
    /\ tasks[t].pc \in DirectPcs
    /\ tasks' = [tasks EXCEPT ![t] = Returns(@, Panic)]
    /\ UNCHANGED <<commands, hitman, queue, consumer, transport, enqueued, main, pubsub, jobs>>

-----------------------------------------------------------------------------
(* Reward redemptions: PubSubHandler::handle_msg, run in a task of its own *)
(* per text frame.                                                         *)

\* Table redeem_triggers: the action stored for a reward's title.
RedeemTriggers ==
    {[title |-> "greet", channel |-> "chan", action |-> <<"hi", " ", "{", "ping", "}">>],
     [title |-> "boom", channel |-> "chan", action |-> <<"{", "nosuch", "}">>]}

\* The user input of a redemption, when the reward asks for one.
UserInputs == {<<>>, <<"bob">>}

\* handle_msg up to run_command, in the task t spawned for the frame: the
\* redemption of a reward with a stored action; or a failing lookup (`?`, then
\* the `.unwrap()` of the spawned task); or a frame without topic, with a
\* payload that does not parse or with no action stored, which is printed
\* and returns Ok(()).
Redeem(t) ==
    \/ \E r \in RedeemTriggers, input \in UserInputs :
          tasks' = [tasks EXCEPT ![t] =
              [@ EXCEPT !.kind = "redeem", !.pc = "run_command",
                        !.pm = [NoPm EXCEPT !.channel = r.channel],
                        !.args = split_whitespace(input),
                        !.cmd = Custom(<<>>, r.action, r.channel, "All")]]
    \/ tasks' = [tasks EXCEPT ![t] =
              [@ EXCEPT !.kind = "redeem", !.pc = "panicked", !.result = DBError]]
    \/ tasks' = [tasks EXCEPT ![t] = [@ EXCEPT !.kind = "redeem", !.pc = "done"]]

\* A text frame of the event stream, at any time after Bot::run has spawned
\* the stream's loop.
handle_msg(t) ==
    /\ Free(t)
    /\ main.pc = "done"
    /\ Redeem(t)
    /\ UNCHANGED <<commands, hitman, queue, consumer, transport, enqueued, main, pubsub, jobs>>

\* A variant for a read loop that awaits the handling itself and ends with
\* its failure.
RedeemRespondInline(t) ==
    /\ tasks[t].pc = "returned"
    /\ tasks[t].kind = "redeem"
    /\ LET r == tasks[t].result
           torn == IF pubsub.pc = "reading" THEN [pubsub EXCEPT !.pc = "sleep"] ELSE pubsub
       IN  IF r.tag # "Ok"
           THEN /\ tasks' = [tasks EXCEPT ![t] = [@ EXCEPT !.pc = "panicked"]]
                /\ pubsub' = torn
                /\ UNCHANGED transport
           ELSE IF ~r.some
           THEN /\ tasks' = [tasks EXCEPT ![t] = [@ EXCEPT !.pc = "done"]]
                /\ UNCHANGED <<transport, pubsub>>
           ELSE \/ /\ Sent("handle_msg", Msg("Say", tasks[t].pm.channel, r.val, t))
                   /\ tasks' = [tasks EXCEPT ![t] = [@ EXCEPT !.pc = "done"]]
                   /\ UNCHANGED pubsub
                \/ /\ tasks' = [tasks EXCEPT ![t] = [@ EXCEPT !.pc = "panicked"]]
                   /\ pubsub' = torn
                   /\ UNCHANGED transport
    /\ UNCHANGED <<commands, hitman, queue, consumer, enqueued, main, jobs>>

\* handle_msg after run_command: `.unwrap()` of the result, then
\* client.say(channel, response).await? for a response.
RedeemRespond(t) ==
    /\ tasks[t].pc = "returned"
    /\ tasks[t].kind = "redeem"
    /\ LET r == tasks[t].result
       IN  IF r.tag # "Ok"
           THEN /\ tasks' = [tasks EXCEPT ![t] = [@ EXCEPT !.pc = "panicked"]]
                /\ UNCHANGED transport
           ELSE IF ~r.some
           THEN /\ tasks' = [tasks EXCEPT ![t] = [@ EXCEPT !.pc = "done"]]
                /\ UNCHANGED transport
           ELSE \/ /\ Sent("handle_msg", Msg("Say", tasks[t].pm.channel, r.val, t))
                   /\ tasks' = [tasks EXCEPT ![t] = [@ EXCEPT !.pc = "done"]]
                \/ /\ tasks' = [tasks EXCEPT ![t] = [@ EXCEPT !.pc = "panicked"]]
                   /\ UNCHANGED transport
    /\ UNCHANGED <<commands, hitman, queue, consumer, enqueued, main, pubsub, jobs>>

-----------------------------------------------------------------------------
(* The event-stream client: the loop of Bot::run around                    *)
(* PubSubHandler::start, the heartbeat task and the read loop that start   *)
(* spawns.  pubsub.pc is the statement the loop is at; topics is start's   *)
(* local; up tells whether the connection's socket is alive; pings holds   *)
(* the heartbeat tasks that have not ended, each with its own statement    *)
(* and whether its socket is alive.  History: sent and prev, the topics of *)
(* the latest subscription request and of the one before; subs and fails   *)
(* count requests and consecutive failed attempts, up to the model's       *)
(* bounds; frames holds the kinds of the frames read on the connection;    *)
(* last tells how the latest call of start went;                           *)
(* hbfailed tells that a heartbeat send of the present connection failed;  *)
(* reqs counts the subscription requests sent on the present connection.   *)

\* The channel lists of the configurations of the model.
ConfigChannels == {<<>>, <<"chan">>, <<"chan", "other">>}

PubSubOff ==
    [pc |-> "off", channels |-> <<>>, topics |-> <<>>, up |-> FALSE, pings |-> <<>>,
     sent |-> <<>>, prev |-> <<>>, subs |-> 0, fails |-> 0, frames |-> <<>>, last |-> "",
     hbfailed |-> FALSE, reqs |-> 0]

UpTo(n, max) == IF n < max THEN n + 1 ELSE max

\* TwitchApi::get_users_by_login: one user per channel name, with its id.
get_users_by_login(channels) ==
    [i \in 1..Len(channels) |-> [login |-> channels[i], id |-> <<"id", channels[i]>>]]

\* format!("community-points-channel-v1.{}", user.id)
Topic(id) == <<"community-points-channel-v1.", id>>

\* start returns (an Err of `?`, or Ok(()) when the read loop has ended) and
\* the loop prints "Pubsub: reconnecting..." and goes to its sleep.
StartReturns(ps, how) ==
    [ps EXCEPT !.pc = "sleep", !.last = how, !.up = FALSE,
               !.fails = IF how = "failed" THEN UpTo(@, MaxFails) ELSE @]

\* A variant that keeps the topics of the earlier calls of start.
start_lookupKeeps ==
    /\ pubsub.pc = "lookup"
    /\ \/ LET users == get_users_by_login(pubsub.channels)
          IN  pubsub' = [pubsub EXCEPT
                  !.topics = @ \o [i \in 1..Len(users) |-> Topic(users[i].id)],
                  !.pc = "connect"]
       \/ pubsub' = StartReturns(pubsub, "failed")
    /\ UNCHANGED <<tasks, commands, hitman, queue, consumer, transport, enqueued, main, jobs>>

\* start: `let mut topics = Vec::new()` and the loop over
\* get_users_by_login(channels).await?.data.
start_lookup ==
    /\ pubsub.pc = "lookup"
    /\ \/ LET users == get_users_by_login(pubsub.channels)
          IN  pubsub' = [pubsub EXCEPT
                  !.topics = [i \in 1..Len(users) |-> Topic(users[i].id)],
                  !.pc = "connect"]
       \/ pubsub' = StartReturns(pubsub, "failed")
    /\ UNCHANGED <<tasks, commands, hitman, queue, consumer, transport, enqueued, main, jobs>>

\* start: connect_async(...).await?
start_connect ==
    /\ pubsub.pc = "connect"
    /\ \/ pubsub' = [pubsub EXCEPT !.pc = "listen", !.up = TRUE, !.frames = <<>>,
                                    !.hbfailed = FALSE, !.reqs = 0]
       \/ pubsub' = StartReturns(pubsub, "failed")
    /\ UNCHANGED <<tasks, commands, hitman, queue, consumer, transport, enqueued, main, jobs>>

\* A variant that spawns the heartbeat task before it sends the request.
start_listenEager ==
    /\ pubsub.pc = "listen"
    /\ Len(pubsub.pings) < MaxPings
    /\ \/ pubsub' = [pubsub EXCEPT
              !.pc = "reading", !.last = "ok", !.fails = 0,
              !.prev = pubsub.sent, !.sent = pubsub.topics,
              !.subs = UpTo(@, MaxSubs), !.reqs = @ + 1,
              !.pings = Append(@, [pc |-> "send", live |-> TRUE])]
       \/ pubsub' = [StartReturns(pubsub, "failed") EXCEPT
              !.pings = Append(@, [pc |-> "send", live |-> TRUE])]
    /\ UNCHANGED <<tasks, commands, hitman, queue, consumer, transport, enqueued, main, jobs>>

\* start: write.send(Message::Text(auth)).await? with the LISTEN request, then
\* the spawn of the heartbeat task and of the read loop.
start_listen ==
    /\ pubsub.pc = "listen"
    /\ \/ /\ Len(pubsub.pings) < MaxPings
          /\ pubsub' = [pubsub EXCEPT
                 !.pc = "reading", !.last = "ok", !.fails = 0,
                 !.prev = pubsub.sent, !.sent = pubsub.topics,
                 !.subs = UpTo(@, MaxSubs), !.reqs = @ + 1,
                 !.pings = Append(@, [pc |-> "send", live |-> TRUE])]
       \/ pubsub' = StartReturns(pubsub, "failed")
    /\ UNCHANGED <<tasks, commands, hitman, queue, consumer, transport, enqueued, main, jobs>>

Without(seq, i) == SubSeq(seq, 1, i - 1) \o SubSeq(seq, i + 1, Len(seq))

\* The heartbeat task: write.send(Message::Ping(..)).await; Ok goes to the
\* sleep of 60 s, Err breaks the loop and ends the task.  On a dead socket
\* the send fails.
heartbeat_send(i) ==
    /\ i \in 1..Len(pubsub.pings)
    /\ pubsub.pings[i].pc = "send"
    /\ \/ /\ pubsub.pings[i].live
          /\ pubsub' = [pubsub EXCEPT !.pings[i].pc = "sleep"]
       \/ pubsub' = [pubsub EXCEPT !.pings = Without(@, i),
                                    !.hbfailed = @ \/ pubsub.pings[i].live]
    /\ UNCHANGED <<tasks, commands, hitman, queue, consumer, transport, enqueued, main, jobs>>

\* The heartbeat task: sleep(Duration::from_secs(60)) is over.
heartbeat_sleep(i) ==
    /\ i \in 1..Len(pubsub.pings)
    /\ pubsub.pings[i].pc = "sleep"
    /\ pubsub' = [pubsub EXCEPT !.pings[i].pc = "send"]
    /\ UNCHANGED <<tasks, commands, hitman, queue, consumer, transport, enqueued, main, jobs>>

\* The frames the read loop spawns nothing for: Ping and Pong, which are
\* printed; the read error Err(e), which is printed; a text that is not JSON
\* and the other kinds, which are passed over.
SkippedFrames == {"ping", "error", "garbage"}

\* The read loop: read.next() gives such a frame, and the loop goes on.
read_next ==
    /\ pubsub.pc = "reading"
    /\ pubsub.up
    /\ Len(pubsub.frames) < MaxFrames
    /\ \E k \in SkippedFrames : pubsub' = [pubsub EXCEPT !.frames = Append(@, k)]
    /\ UNCHANGED <<tasks, commands, hitman, queue, consumer, transport, enqueued, main, jobs>>

\* The read loop: read.next() gives a text frame that is JSON; the loop spawns
\* a task for handle_msg and goes on.
read_text(t) ==
    /\ pubsub.pc = "reading"
    /\ pubsub.up
    /\ Len(pubsub.frames) < MaxFrames
    /\ Free(t)
    /\ pubsub' = [pubsub EXCEPT !.frames = Append(@, "text")]
    /\ Redeem(t)
    /\ UNCHANGED <<commands, hitman, queue, consumer, transport, enqueued, main, jobs>>

\* The connection is lost: its socket is dead for the read loop and for the
\* heartbeat task that writes to it.
connection_lost ==
    /\ pubsub.pc = "reading"
    /\ pubsub.up
    /\ pubsub' = [pubsub EXCEPT
           !.up = FALSE,
           !.pings = [i \in 1..Len(@) |-> [@[i] EXCEPT !.live = FALSE]]]
    /\ UNCHANGED <<tasks, commands, hitman, queue, consumer, transport, enqueued, main, jobs>>

\* The read loop: read.next() is None, "Pubsub connection dropped"; the task
\* ends, start's `.await?` on it returns and start returns Ok(()).
read_end ==
    /\ pubsub.pc = "reading"
    /\ ~pubsub.up
    /\ pubsub' = StartReturns(pubsub, "lost")
    /\ UNCHANGED <<tasks, commands, hitman, queue, consumer, transport, enqueued, main, jobs>>

\* A variant of the loop that gives up when start has returned an error.
reconnect_sleepGivesUp ==
    /\ pubsub.pc = "sleep"
    /\ pubsub' = [pubsub EXCEPT !.pc = IF pubsub.last = "failed" THEN "stopped"
                                       ELSE "lookup"]
    /\ UNCHANGED <<tasks, commands, hitman, queue, consumer, transport, enqueued, main, jobs>>

\* Bot::run's loop: sleep(Duration::from_secs(5)) is over, the next
\* pubsub_handler.start(&channels, ..) begins.
reconnect_sleep ==
    /\ pubsub.pc = "sleep"
    /\ pubsub' = [pubsub EXCEPT !.pc = "lookup"]
    /\ UNCHANGED <<tasks, commands, hitman, queue, consumer, transport, enqueued, main, jobs>>

-----------------------------------------------------------------------------
(* The refresh scheduler: JobRunner::start and the loop of each task that  *)
(* start_spotify_token_refresh spawns.  jobs.now is the clock in seconds;  *)
(* jobs.spotify is table `spotify`, in the order its rows are read; each   *)
(* loop has its channel and refresh token, the statement it is at (pc),    *)
(* update_token's return value (new_token, expiration_time), and the time  *)
(* its sleep ends (wake).  History: issued, the time of the latest         *)
(* credential response; expiry, the reported expiry of the credential      *)
(* stored last; at, the time the sleep began; last, how the latest         *)
(* iteration went; requests and writes, the requests made and the store    *)
(* writes that succeeded.                                                  *)

\* sleep(Duration::from_secs(60)) after a failed iteration.
RetryDelay == 60

\* The `expires_in` of the credential service's responses.
ExpiresIn == {120, 180}

JobsOff == [pc |-> "off", now |-> 0, spotify |-> <<>>, loops |-> <<>>]

SpotifyRow(channel) ==
    [channel |-> channel, refresh_token |-> <<"refresh", channel>>, access_token |-> <<>>]

\* Table `spotify` at boot: one row per channel that has authorised the bot.
SpotifyTables ==
    {<<>>, <<SpotifyRow("chan")>>, <<SpotifyRow("chan"), SpotifyRow("other")>>}

\* The task start_spotify_token_refresh spawns, at the top of its loop.
NewLoop(channel, refresh_token) ==
    [channel |-> channel, refresh_token |-> refresh_token, pc |-> "request",
     new_token |-> <<>>, expiration_time |-> 0, wake |-> 0,
     issued |-> 0, expiry |-> 0, at |-> 0, last |-> "none", requests |-> 0, writes |-> 0]

\* JobRunner::start: get_spotify_refresh_tokens()?, then one spawn per row.
JobRunner_start ==
    /\ jobs.pc = "start"
    /\ \/ jobs' = [jobs EXCEPT
              !.pc = "started",
              !.loops = [i \in 1..Len(jobs.spotify) |->
                            NewLoop(jobs.spotify[i].channel, jobs.spotify[i].refresh_token)]]
       \/ jobs' = [jobs EXCEPT !.pc = "failed"]
    /\ UNCHANGED <<tasks, commands, hitman, queue, consumer, transport, enqueued, main, pubsub>>

\* The loop after a failed iteration: println!, sleep(Duration::from_secs(60)).
Retry(loop) ==
    [loop EXCEPT !.pc = "sleep", !.wake = jobs.now + RetryDelay, !.at = jobs.now,
                 !.last = "failed"]

\* A variant whose failure also holds back the loops that are asleep.
update_tokenShared(i) ==
    /\ i \in 1..Len(jobs.loops)
    /\ jobs.loops[i].pc = "request"
    /\ \/ \E e \in ExpiresIn :
             jobs' = [jobs EXCEPT !.loops[i] =
                 [@ EXCEPT !.pc = "store", !.requests = @ + 1, !.issued = jobs.now,
                           !.new_token = <<"token", jobs.loops[i].requests + 1>>,
                           !.expiration_time = e]]
       \/ jobs' = [jobs EXCEPT !.loops =
                 [j \in 1..Len(jobs.loops) |->
                     IF j = i THEN Retry([jobs.loops[i] EXCEPT !.requests = @ + 1])
                     ELSE IF jobs.loops[j].pc = "sleep"
                     THEN [jobs.loops[j] EXCEPT !.wake = jobs.now + RetryDelay]
                     ELSE jobs.loops[j]]]
       \/ jobs' = [jobs EXCEPT !.loops[i] =
                 [@ EXCEPT !.pc = "panicked", !.requests = @ + 1]]
    /\ UNCHANGED <<tasks, commands, hitman, queue, consumer, transport, enqueued, main, pubsub>>

\* SpotifyHandler::update_token: the POST and its JSON body.  A response with
\* access_token and expires_in is Ok((token, expires_in)); a failed send or a
\* body that is not JSON is Err (`?`); a JSON body without the two fields,
\* such as the service's error object, panics at `.as_str().unwrap()`, and the
\* panic ends the task.
update_token(i) ==
    /\ i \in 1..Len(jobs.loops)
    /\ jobs.loops[i].pc = "request"
    /\ \/ \E e \in ExpiresIn :
             jobs' = [jobs EXCEPT !.loops[i] =
                 [@ EXCEPT !.pc = "store", !.requests = @ + 1, !.issued = jobs.now,
                           !.new_token = <<"token", jobs.loops[i].requests + 1>>,
                           !.expiration_time = e]]
       \/ jobs' = [jobs EXCEPT !.loops[i] = Retry([@ EXCEPT !.requests = @ + 1])]
       \/ jobs' = [jobs EXCEPT !.loops[i] =
                 [@ EXCEPT !.pc = "panicked", !.requests = @ + 1]]
    /\ UNCHANGED <<tasks, commands, hitman, queue, consumer, transport, enqueued, main, pubsub>>

\* DBConn::update_spotify_token: UPDATE spotify SET access_token WHERE channel;
\* Ok(()) goes to sleep(Duration::from_secs(expiration_time)), Err to the
\* sleep of a failed iteration.
update_spotify_token(i) ==
    /\ i \in 1..Len(jobs.loops)
    /\ jobs.loops[i].pc = "store"
    /\ \/ jobs' = [jobs EXCEPT
              !.spotify = [k \in 1..Len(@) |->
                              IF @[k].channel = jobs.loops[i].channel
                              THEN [@[k] EXCEPT !.access_token = jobs.loops[i].new_token]
                              ELSE @[k]],
              !.loops[i] = [@ EXCEPT !.pc = "sleep", !.last = "ok", !.at = jobs.now,
                                     !.wake = jobs.now + jobs.loops[i].expiration_time,
                                     !.expiry = jobs.loops[i].issued
                                                   + jobs.loops[i].expiration_time,
                                     !.writes = @ + 1]]
       \/ jobs' = [jobs EXCEPT !.loops[i] = Retry(@)]
    /\ UNCHANGED <<tasks, commands, hitman, queue, consumer, transport, enqueued, main, pubsub>>

\* The loop's sleep is over (not before its time), and the loop starts again.
refresh_sleep(i) ==
    /\ i \in 1..Len(jobs.loops)
    /\ jobs.loops[i].pc = "sleep"
    /\ jobs.now >= jobs.loops[i].wake
    /\ jobs' = [jobs EXCEPT !.loops[i] = [@ EXCEPT !.pc = "request"]]
    /\ UNCHANGED <<tasks, commands, hitman, queue, consumer, transport, enqueued, main, pubsub>>

\* Time passes, up to the end of some loop's sleep.
tick ==
    /\ \E i \in 1..Len(jobs.loops) :
          /\ jobs.loops[i].pc = "sleep"
          /\ jobs.loops[i].wake > jobs.now
          /\ jobs.loops[i].wake <= MaxTime
          /\ jobs' = [jobs EXCEPT !.now = jobs.loops[i].wake]
    /\ UNCHANGED <<tasks, commands, hitman, queue, consumer, transport, enqueued, main, pubsub>>

-----------------------------------------------------------------------------
(* The bot: the router's tasks, the redeem tasks, the queue and its        *)
(* consumer, from the start of Bot::run.  The event stream's connection is *)
(* followed in a specification of its own; here its frames may arrive at   *)
(* any time after Bot::run has spawned the loop.                           *)

Init ==
    /\ tasks = [t \in TaskIds |-> IdleTask]
    /\ commands = StoredCommands
    /\ hitman = {}
    /\ queue = <<>>
    /\ consumer = [pc |-> "recv", msg |-> NoMsg, failed |-> FALSE]
    /\ transport = <<>>
    /\ enqueued = <<>>
    /\ main = [pc |-> "join", i |-> 0]
    /\ pubsub = PubSubOff
    /\ jobs = JobsOff

TaskStep(t) ==
    \/ handle_privmsg(t) \/ Dispatch(t) \/ DispatchStoreFails(t) \/ GateEval(t)
    \/ run_command_BuiltIn(t) \/ run_command_Custom(t) \/ run(t) \/ ActionReturn(t)
    \/ hitman_add(t) \/ hitman_check(t) \/ hitman_unset(t) \/ bodyguard_set(t)
    \/ ActionStoreFails(t) \/ DirectSend(t) \/ DirectSendFails(t)
    \/ Respond(t) \/ Deny(t) \/ handle_msg(t) \/ RedeemRespond(t)

Next ==
    \/ Join \/ Announce
    \/ listen_recv \/ listen_send \/ listen_send_fails \/ listen_sleep
    \/ \E t \in TaskIds : TaskStep(t)

Spec == Init /\ [][Next]_vars

-----------------------------------------------------------------------------
(* The router on lines that carry little or nothing after the prefix.      *)

\* Lines that start with the prefix: the prefix alone, the prefix and only
\* whitespace, whitespace before the trigger, and plain triggers.
PrefixTexts ==
    {<<"!">>,
     <<"!", " ">>,
     <<"!", " ", " ">>,
     <<"!", " ", "hi">>,
     <<"!", "hi">>,
     <<"!", "delcmd", " ">>,
     <<"!", "nosuch">>}

LineIds == 1..MaxTasks

InitLines ==
    /\ \E lines \in [LineIds -> PrefixTexts], senders \in [LineIds -> Senders] :
          tasks = [t \in TaskIds |->
                      [IdleTask EXCEPT
                          !.kind = "privmsg", !.pc = "spawned",
                          !.pm = [channel |-> "chan", login |-> senders[t].login,
                                  badges |-> senders[t].badges, text |-> lines[t]]]]
    /\ commands = StoredCommands
    /\ hitman = {}
    /\ queue = <<>>
    /\ consumer = [pc |-> "recv", msg |-> NoMsg, failed |-> FALSE]
    /\ transport = <<[by |-> "listen_msg", msg |-> Msg("Say", "chan", Started, 0)]>>
    /\ enqueued = <<Msg("Say", "chan", Started, 0)>>
    /\ main = [pc |-> "done", i |-> Len(Channels)]
    /\ pubsub = PubSubOff
    /\ jobs = JobsOff

NextLines ==
    \/ listen_recv \/ listen_send \/ listen_sleep
    \/ \E t \in LineIds :
          \/ Dispatch(t) \/ GateEval(t) \/ run_command_BuiltIn(t)
          \/ run_command_Custom(t) \/ Respond(t) \/ Deny(t)

SpecLines == InitLines /\ [][NextLines]_vars

-----------------------------------------------------------------------------
(* The outbound queue at its capacity: earlier lines have left it full,    *)
(* the transport accepts every send.                                       *)

\* What earlier invocations (their tasks ended; sender 0) have left on the
\* queue.
Backlog ==
    [i \in 1..QueueCapacity |-> Msg("Reply", "chan", <<"hi", " ", "there">>, 0)]

\* The lines that came last, both from a caller without a badge.
QueueTexts == <<<<"!", "emote", " ", "1">>, <<"!", "guard", " ", "bob">>>>

\* The task of a line up to its denial: split, lookup and permission check
\* are behind it, the send of the denial is next.
DeniedTask(text) ==
    LET split == split_whitespace(parse_command(text, "chan").val)
        found == get_command(Head(split), "chan")
    IN  [IdleTask EXCEPT
            !.kind = "privmsg", !.pc = "deny", !.gate = "denied",
            !.pm = [channel |-> "chan", login |-> "alice", badges |-> {},
                    text |-> text],
            !.args = Tail(split), !.cmd = found.cmd, !.lookups = found.queries]

InitQueue ==
    /\ commands = StoredCommands
    /\ tasks = [t \in TaskIds |-> DeniedTask(QueueTexts[((t - 1) % 2) + 1])]
    /\ hitman = {}
    /\ queue = Backlog
    /\ consumer = [pc |-> "recv", msg |-> NoMsg, failed |-> FALSE]
    /\ transport = <<[by |-> "listen_msg", msg |-> Msg("Say", "chan", Started, 0)]>>
    /\ enqueued = <<Msg("Say", "chan", Started, 0)>> \o Backlog
    /\ main = [pc |-> "done", i |-> Len(Channels)]
    /\ pubsub = PubSubOff
    /\ jobs = JobsOff

\* A step of the consumer's task while every transport send succeeds.
listen_msg == listen_recv \/ listen_send \/ listen_sleep

NextQueue ==
    \/ listen_msg
    \/ \E t \in LineIds : Deny(t)

\* The consumer's task is scheduled fairly; nothing is asked of the producers.
SpecQueue == InitQueue /\ [][NextQueue]_vars /\ WF_vars(listen_msg)

-----------------------------------------------------------------------------
(* The interpreter on its own: one run of one body with one argument list. *)

\* The pieces bodies are built from: every special character alone, and
\* whole blocks.
Segs ==
    {<<"x">>, <<"{">>, <<"}">>, <<"$">>, <<" ">>, <<"1">>, <<"ping">>,
     <<"{", "ping", "}">>, <<"{", "weather", " ", "$", "0", "}">>,
     <<"{", "weather", " ", "$", "$", "}">>,
     <<"{", "weather", " ", "$", "user", "}">>,
     <<"{", "weather", " ", "a", " ", "b", "}">>}

RECURSIVE BodiesOf(_)
BodiesOf(n) ==
    IF n = 0 THEN {<<>>}
    ELSE LET shorter == BodiesOf(n - 1)
         IN  shorter \cup {b \o s : b \in shorter, s \in Segs}

InterpBodies == BodiesOf(MaxSegs)

\* Caller arguments: as split_whitespace gives them, none empty, none with
\* a space; one holds a whole block.
InterpArgs == {<<>>, <<<<"a">>>>, <<<<"a">>, <<"{", "ping", "}">>>>}

InitStore ==
    /\ commands = {}
    /\ hitman = {}
    /\ queue = <<>>
    /\ consumer = [pc |-> "recv", msg |-> NoMsg, failed |-> FALSE]
    /\ transport = <<>>
    /\ enqueued = <<>>
    /\ main = [pc |-> "join", i |-> 0]
    /\ pubsub = PubSubOff
    /\ jobs = JobsOff

InitInterp ==
    /\ \E body \in InterpBodies, args \in InterpArgs :
          tasks = [t \in TaskIds |->
                     IF t = 1
                     THEN [IdleTask EXCEPT !.pc = "run_command", !.kind = "redeem",
                                           !.args = args,
                                           !.cmd = Custom(<<>>, body, "chan", "all")]
                     ELSE IdleTask]
    /\ InitStore

NextInterp == \E t \in TaskIds : run_command_Custom(t) \/ run(t) \/ ActionReturn(t)

SpecInterp == InitInterp /\ [][NextInterp]_vars

-----------------------------------------------------------------------------
(* The permission gate on its own: one verdict for every permission level, *)
(* badge set and caller.                                                   *)

Badges == {"broadcaster", "moderator", "subscriber", "vip"}

Logins == {"boring_nick", "alice", "mod"}

InitGate ==
    /\ \E login \in Logins, badges \in SUBSET Badges, permissions \in Permissions :
          tasks = [t \in TaskIds |->
                     IF t = 1
                     THEN [IdleTask EXCEPT
                              !.pc = "gate", !.kind = "privmsg",
                              !.pm = [channel |-> "chan", login |-> login,
                                      badges |-> badges, text |-> <<"!", "cmd">>],
                              !.cmd = Custom(Str("cmd"), <<"{", "ping", "}">>, "chan",
                                             permissions)]
                     ELSE IdleTask]
    /\ InitStore

NextGate == \E t \in TaskIds : GateEval(t)

SpecGate == InitGate /\ [][NextGate]_vars

-----------------------------------------------------------------------------
(* The event-stream client on its own, from the spawn of its loop in       *)
(* Bot::run, for each channel list.                                        *)

InitPubSub ==
    /\ tasks = [t \in TaskIds |-> IdleTask]
    /\ commands = {}
    /\ hitman = {}
    /\ queue = <<>>
    /\ consumer = [pc |-> "recv", msg |-> NoMsg, failed |-> FALSE]
    /\ transport = <<>>
    /\ enqueued = <<>>
    /\ main = [pc |-> "done", i |-> Len(Channels)]
    /\ \E channels \in ConfigChannels :
          pubsub = [PubSubOff EXCEPT !.pc = "lookup", !.channels = channels]
    /\ jobs = JobsOff

NextPubSub ==
    \/ start_lookup \/ start_connect \/ start_listen
    \/ read_next \/ connection_lost \/ read_end \/ reconnect_sleep
    \/ \E i \in 1..MaxPings : heartbeat_send(i) \/ heartbeat_sleep(i)

SpecPubSub == InitPubSub /\ [][NextPubSub]_vars

\* The sleep of the loop ends: the runtime's timer wakes the task.
SpecPubSubLive == SpecPubSub /\ WF_vars(reconnect_sleep)

\* One call of start with the frames of its connection and their tasks: each
\* text frame's redemption is run in the task the read loop spawns for it.
InitFrames ==
    /\ InitPubSub
    /\ pubsub.channels = <<"chan">>

NextFrames ==
    \/ start_lookup \/ start_connect \/ start_listen
    \/ read_next \/ connection_lost \/ read_end
    \/ \E i \in 1..MaxPings : heartbeat_send(i) \/ heartbeat_sleep(i)
    \/ \E t \in TaskIds :
          \/ read_text(t) \/ run_command_Custom(t) \/ run(t) \/ ActionReturn(t)
          \/ RedeemRespond(t)

SpecFrames == InitFrames /\ [][NextFrames]_vars

\* The runtime runs every task of the client that can take a step: start and
\* the loop around it, the read loop's end and the heartbeat tasks.  What the
\* network does (a frame arrives, the connection is lost) is not the
\* client's to force.
SpecPubSubFair ==
    /\ SpecPubSub
    /\ WF_vars(start_lookup) /\ WF_vars(start_connect) /\ WF_vars(start_listen)
    /\ WF_vars(read_end) /\ WF_vars(reconnect_sleep)
    /\ \A i \in 1..MaxPings : WF_vars(heartbeat_send(i)) /\ WF_vars(heartbeat_sleep(i))

-----------------------------------------------------------------------------
(* The refresh scheduler on its own, from the call of JobRunner::start in  *)
(* Bot::run, for each table `spotify`.                                     *)

InitJobs ==
    /\ tasks = [t \in TaskIds |-> IdleTask]
    /\ commands = {}
    /\ hitman = {}
    /\ queue = <<>>
    /\ consumer = [pc |-> "recv", msg |-> NoMsg, failed |-> FALSE]
    /\ transport = <<>>
    /\ enqueued = <<>>
    /\ main = [pc |-> "join", i |-> 0]
    /\ pubsub = PubSubOff
    /\ \E table \in SpotifyTables :
          jobs = [JobsOff EXCEPT !.pc = "start", !.spotify = table]

NextJobs ==
    \/ JobRunner_start \/ tick
    \/ \E i \in 1..Len(jobs.loops) :
          update_token(i) \/ update_spotify_token(i) \/ refresh_sleep(i)

SpecJobs == InitJobs /\ [][NextJobs]_vars

-----------------------------------------------------------------------------
(* The block grammar as the specification words it, read off the body      *)
(* alone: a '{' outside a block opens one, the first '}' after it closes   *)
(* it.                                                                     *)

\* The index of the first ch in s, 0 when there is none.
First(s, ch) ==
    IF \E i \in 1..Len(s) : s[i] = ch
    THEN CHOOSE i \in 1..Len(s) : s[i] = ch /\ \A j \in 1..(i - 1) : s[j] # ch
    ELSE 0

\* The texts between the braces of the closed blocks of a body, left to right.
RECURSIVE BlockTexts(_)
BlockTexts(b) ==
    LET i == First(b, "{")
        after == SubSeq(b, i + 1, Len(b))
        j == First(after, "}")
    IN  IF i = 0 \/ j = 0 THEN <<>>
        ELSE <<SubSeq(after, 1, j - 1)>> \o BlockTexts(SubSeq(after, j + 1, Len(after)))

NumBlocks(b) == Len(BlockTexts(b))

\* Every block of the body is closed.
RECURSIVE WellFormed(_)
WellFormed(b) ==
    LET i == First(b, "{")
        after == SubSeq(b, i + 1, Len(b))
        j == First(after, "}")
    IN  IF i = 0 THEN TRUE
        ELSE IF j = 0 THEN FALSE
        ELSE WellFormed(SubSeq(after, j + 1, Len(after)))

\* What a block's text literally names: its text without the spaces and
\* without the `$` variables.
RECURSIVE LiteralName(_)
LiteralName(text) ==
    IF text = <<>> THEN <<>>
    ELSE IF Head(text) = " " THEN LiteralName(Tail(text))
    ELSE IF Head(text) = "$" THEN LiteralName(SubSeq(text, 3, Len(text)))
    ELSE <<Head(text)>> \o LiteralName(Tail(text))

\* The number of `$$` in a block's text, and whether it holds a `$<digit>`.
RECURSIVE CountAll(_)
CountAll(text) ==
    IF Len(text) < 2 THEN 0
    ELSE IF Head(text) = "$"
         THEN (IF text[2] = "$" THEN 1 ELSE 0) + CountAll(SubSeq(text, 3, Len(text)))
         ELSE CountAll(Tail(text))

RECURSIVE HasIndexed(_)
HasIndexed(text) ==
    IF Len(text) < 2 THEN FALSE
    ELSE IF Head(text) = "$"
         THEN IsDigit(text[2]) \/ HasIndexed(SubSeq(text, 3, Len(text)))
         ELSE HasIndexed(Tail(text))

RECURSIVE SumLen(_)
SumLen(ss) == IF ss = <<>> THEN 0 ELSE Len(Head(ss)) + SumLen(Tail(ss))

\* j is the elements of args with exactly one space between neighbours.
IsSpaceJoined(j, args) ==
    IF args = <<>> THEN j = <<>>
    ELSE /\ Len(j) = SumLen(args) + Len(args) - 1
         /\ split_whitespace(j) = args

\* The part of the body the scan of task t has consumed.
Consumed(t) ==
    SubSeq(tasks[t].cmd.body, 1, Len(tasks[t].cmd.body) - Len(tasks[t].it.chars))

Running(t) == tasks[t].cmd.action = "Custom" /\ tasks[t].pc # "run_command"
                 /\ tasks[t].pc # "idle"

-----------------------------------------------------------------------------
(* Claims about the interpreter (under SpecInterp).                        *)

\* C4 as stated: for every well-formed body with N blocks a finished run has
\* made exactly N registry calls.
C4_Original ==
    \A t \in TaskIds :
        (tasks[t].pc \in {"returned", "panicked"} /\ WellFormed(tasks[t].cmd.body))
            => Len(tasks[t].calls) = NumBlocks(tasks[t].cmd.body)

\* C4 (amended): a run that ends without error has made exactly N registry
\* calls, N the number of blocks of the body; while no error has occurred the
\* k-th call is made when the scan has consumed exactly k blocks (left to
\* right order); never more than N calls are made and never is more than one
\* call in progress, none when the next one begins.
C4_CallsPerBlock ==
    \A t \in TaskIds : Running(t) =>
        /\ (tasks[t].pc = "returned" /\ tasks[t].result.tag = "Ok")
              => Len(tasks[t].calls) = NumBlocks(tasks[t].cmd.body)
        /\ Len(tasks[t].calls) <= NumBlocks(tasks[t].cmd.body)
        /\ tasks[t].it.status # "err"
              => NumBlocks(Consumed(t)) =
                    Len(tasks[t].calls) + (IF tasks[t].pc = "action_run" THEN 1 ELSE 0)
        /\ tasks[t].open \in {0, 1}
        /\ tasks[t].pc = "action_run" => tasks[t].open = 0
        /\ tasks[t].pc = "returned" => tasks[t].open = 0

\* C4 witness: a run ended without error after two calls, the second begun
\* after the first returned.
C4_Witness ==
    \E t \in TaskIds :
        /\ tasks[t].pc = "returned" /\ tasks[t].result.tag = "Ok"
        /\ Len(tasks[t].calls) = 2 /\ NumBlocks(tasks[t].cmd.body) = 2

\* C9: the i-th registry call of a run names what the i-th block of the body
\* literally names, whatever the caller's arguments and the actions' results
\* hold; no call is made beyond the blocks of the body; and the scan reads
\* only the body: what is left to scan is always a tail of the body, so no
\* substituted or returned text is ever scanned.
C9_OnlyLiteralNames ==
    \A t \in TaskIds : Running(t) =>
        /\ Len(tasks[t].calls) <= NumBlocks(tasks[t].cmd.body)
        /\ \A i \in 1..Len(tasks[t].calls) :
              tasks[t].calls[i].name = LiteralName(BlockTexts(tasks[t].cmd.body)[i])
        /\ tasks[t].it.chars =
              SubSeq(tasks[t].cmd.body,
                     Len(tasks[t].cmd.body) - Len(tasks[t].it.chars) + 1,
                     Len(tasks[t].cmd.body))

\* C9 witness: a run has ended whose call got a caller argument holding a whole
\* block, and whose response holds a block returned by the action; it made
\* the one call of its body.
C9_Witness ==
    \E t \in TaskIds :
        /\ tasks[t].pc = "returned"
        /\ Len(tasks[t].calls) = 1 /\ NumBlocks(tasks[t].cmd.body) = 1
        /\ \E a \in 1..Len(tasks[t].calls[1].args) : "{" \in
              {tasks[t].calls[1].args[a][k] : k \in 1..Len(tasks[t].calls[1].args[a])}
        /\ \E k \in 1..Len(tasks[t].it.response) : tasks[t].it.response[k] = "{"

\* C10: a block whose only variables are `$$` is called with one argument per
\* `$$`, each the caller's arguments joined by single spaces (the empty text
\* for no arguments).
C10_AllArgsAsOne ==
    \A t \in TaskIds :
        (Running(t) /\ tasks[t].pc = "action_run") =>
            LET text == BlockTexts(tasks[t].cmd.body)[NumBlocks(Consumed(t))]
                got == tasks[t].it.action_args
            IN  ~HasIndexed(text) =>
                    /\ Len(got) = CountAll(text)
                    /\ \A i \in 1..Len(got) : IsSpaceJoined(got[i], tasks[t].args)

\* C10 witness: a call with the single argument "a {ping}" made from the two
\* caller arguments, and one with the single empty argument made from none.
C10_Witness ==
    \E t \in TaskIds :
        /\ tasks[t].pc = "action_run" /\ Len(tasks[t].args) = 2
        /\ tasks[t].it.action_args = << <<"a", " ", "{", "ping", "}">> >>

C10_WitnessEmpty ==
    \E t \in TaskIds :
        /\ tasks[t].pc = "action_run" /\ tasks[t].args = <<>>
        /\ tasks[t].it.action_args = << <<>> >>

-----------------------------------------------------------------------------
(* Claims about the permission gate (under SpecGate).                      *)

Evaluated(t) == tasks[t].gate # "none"

\* The table of the claim, by badge sets.
GateTable(permissions, badges, login) ==
    CASE permissions = "All" -> TRUE
      [] permissions = "Super" -> login = "boring_nick"
      [] permissions = "Mods" -> badges \cap {"broadcaster", "moderator"} # {}
      [] permissions = "Subs" -> badges \cap {"broadcaster", "moderator", "subscriber"} # {}

\* C6: the gate's verdict equals the table for every permission level, badge
\* set and caller: All always passes, Super passes exactly for the one
\* super-user, Mods exactly with a broadcaster or moderator badge, Subs exactly
\* with a broadcaster, moderator or subscriber badge.
C6_GateTable ==
    \A t \in TaskIds : Evaluated(t) =>
        (tasks[t].gate = "allowed") =
            GateTable(tasks[t].cmd.permissions, tasks[t].pm.badges, tasks[t].pm.login)

\* C6 witness: Mods has denied a caller whose only badge is subscriber.
C6_Witness ==
    \E t \in TaskIds :
        /\ tasks[t].gate = "denied" /\ tasks[t].cmd.permissions = "Mods"
        /\ tasks[t].pm.badges = {"subscriber"}

Rank(permissions) ==
    CASE permissions = "All" -> 0 [] permissions = "Subs" -> 1
      [] permissions = "Mods" -> 2 [] permissions = "Super" -> 3

\* C7 as stated: a caller the gate allows at some level is allowed at every
\* lower level of All < Subs < Mods < Super.
C7_Original ==
    \A t \in TaskIds : tasks[t].gate = "allowed" =>
        \A lower \in Permissions :
            Rank(lower) < Rank(tasks[t].cmd.permissions)
                => check_command_permissions(tasks[t].pm, lower)

-----------------------------------------------------------------------------
(* Claims about the queue, the router and the transport (under Spec).      *)

\* The messages the consumer has handed to the transport, in order.
ConsumerSent ==
    LET mine == SelectSeq(transport, LAMBDA e : e.by = "listen_msg")
    IN  [i \in 1..Len(mine) |-> mine[i].msg]

\* C1: the consumer's transport sends are, in order, the messages in the order
\* in which they entered the queue, whichever producer put them there.
C1_Fifo == IsPrefix(ConsumerSent, enqueued)

\* C1 witness: three producers (Bot::run and two router tasks) have put a
\* message on the queue, a task's before the announcement, and all three have
\* been sent.
C1_Witness ==
    /\ Len(ConsumerSent) = 3
    /\ {ConsumerSent[i].from : i \in 1..3} = {0, 1, 2}
    /\ ConsumerSent[1].from # 0

\* C2 as stated: after a failed transport send the consumer is still alive
\* and the queue still takes messages.
C2_Original == consumer.failed => (consumer.pc # "panicked" /\ ~ReceiverDropped)

\* C3 as stated: every message handed to the transport is handed over by the
\* queue's consumer.
C3_Original == \A i \in 1..Len(transport) : transport[i].by = "listen_msg"

\* C5: for a chat line's command nothing of the command happens unless the
\* gate has allowed the caller: without that verdict the task has made no
\* registry call and no store mutation, has not started the interpreter, and
\* is at no statement of run_command or of an action.
C5_GateFirst ==
    \A t \in TaskIds : (tasks[t].kind = "privmsg" /\ tasks[t].gate # "allowed") =>
        /\ tasks[t].calls = <<>>
        /\ tasks[t].open = 0
        /\ tasks[t].writes = 0
        /\ tasks[t].it = NewScan(<<>>)
        /\ tasks[t].pc \in {"ignored", "spawned", "gate", "deny", "done", "panicked"}

\* C5 witness: a caller without badge was denied addcmd, got the denial on
\* the queue, and the task is over.
C5_Witness ==
    \E t \in TaskIds :
        /\ tasks[t].gate = "denied" /\ tasks[t].cmd.action = "AddCmd"
        /\ tasks[t].pc = "done" /\ tasks[t].puts = 1

\* The messages a task has caused: sent to the transport or put on the queue.
Caused(t) ==
    {transport[i].msg : i \in {j \in 1..Len(transport) : transport[j].msg.from = t}}
        \cup {enqueued[i] : i \in {j \in 1..Len(enqueued) : enqueued[j].from = t}}

\* C8 as stated: a run that ends because a block is not closed has caused no
\* message but the error reply.
C8_Original ==
    \A t \in TaskIds :
        tasks[t].result = ExecutionError("closing } not found") =>
            \A m \in Caused(t) : m.text = ReplyText(tasks[t].result)

-----------------------------------------------------------------------------
(* Claims about the variables and the text of a block (under SpecInterp).  *)

\* Every `$` of a block's text is followed by a digit.
RECURSIVE OnlyIndexed(_)
OnlyIndexed(text) ==
    IF text = <<>> THEN TRUE
    ELSE IF Head(text) = "$"
         THEN Len(text) >= 2 /\ IsDigit(text[2]) /\ OnlyIndexed(SubSeq(text, 3, Len(text)))
         ELSE OnlyIndexed(Tail(text))

\* The indexes of the `$<digit>` of such a text, left to right.
RECURSIVE Indexes(_)
Indexes(text) ==
    IF Len(text) < 2 THEN <<>>
    ELSE IF Head(text) = "$"
         THEN <<to_digit(text[2])>> \o Indexes(SubSeq(text, 3, Len(text)))
         ELSE Indexes(Tail(text))

\* The text of the block whose call task t is about to make.
CurrentBlock(t) == BlockTexts(tasks[t].cmd.body)[NumBlocks(Consumed(t))]

\* C11: a block whose variables are all `$<digit>` is called only when every
\* index is below the number of caller arguments, and then with the caller's
\* arguments at those 0-based indexes; when an index is at or past that number
\* the block's action is never invoked, and the run that reaches the block
\* ends, without a panic, with the error "missing argument".
C11_IndexedArgs ==
    \A t \in TaskIds : Running(t) =>
        LET texts == BlockTexts(tasks[t].cmd.body)
            args == tasks[t].args
        IN  /\ (tasks[t].pc = "action_run" /\ OnlyIndexed(CurrentBlock(t))) =>
                  LET ix == Indexes(CurrentBlock(t))
                  IN  /\ \A k \in 1..Len(ix) : ix[k] < Len(args)
                      /\ tasks[t].it.action_args = [k \in 1..Len(ix) |-> args[ix[k] + 1]]
            /\ \A i \in 1..Len(texts) :
                  (/\ OnlyIndexed(texts[i])
                   /\ \E k \in 1..Len(Indexes(texts[i])) : Indexes(texts[i])[k] >= Len(args))
                  => /\ Len(tasks[t].calls) < i
                     /\ (Len(tasks[t].calls) = i - 1 /\ tasks[t].it.status = "err")
                           => /\ tasks[t].pc = "returned"
                              /\ tasks[t].result = ExecutionError("missing argument")

\* C11 witness: `$1` with one caller argument (index 0 only) has ended the run
\* with the missing-argument error before any call.
C11_Witness ==
    \E t \in TaskIds :
        /\ tasks[t].pc = "returned" /\ Len(tasks[t].args) = 1
        /\ tasks[t].result = ExecutionError("missing argument")
        /\ tasks[t].calls = <<>>
        /\ \E k \in 1..(Len(tasks[t].cmd.body) - 1) :
              tasks[t].cmd.body[k] = "$" /\ tasks[t].cmd.body[k + 1] = "1"

\* ... and `$1` with two caller arguments passes the second one.
C11_WitnessInRange ==
    \E t \in TaskIds :
        /\ tasks[t].pc = "action_run" /\ Len(tasks[t].args) = 2
        /\ Indexes(CurrentBlock(t)) = <<1>>
        /\ tasks[t].it.action_args = <<tasks[t].args[2]>>

\* C12 as stated: a run ends with "invalid variable" only at a `$` token other
\* than `$$`, `$user` and `$<digit>`; so never right after reading `$user`.
C12_Original ==
    \A t \in TaskIds :
        (Running(t) /\ tasks[t].result = ExecutionError("invalid variable")) =>
            LET c == Consumed(t)
            IN  ~(Len(c) >= 2 /\ c[Len(c) - 1] = "$" /\ c[Len(c)] = "user")

\* C13 as stated: a block without variables is split at whitespace; its first
\* token is the action's name and the later ones are the action's arguments.
C13_Original ==
    \A t \in TaskIds :
        (Running(t) /\ tasks[t].pc = "action_run") =>
            LET text == CurrentBlock(t)
                tokens == split_whitespace(text)
            IN  ((\A k \in 1..Len(text) : text[k] # "$") /\ tokens # <<>>) =>
                    /\ tasks[t].it.action = Head(tokens)
                    /\ tasks[t].it.action_args = Tail(tokens)

\* The body with its blocks replaced, left to right, by the given texts.
RECURSIVE Fill(_, _)
Fill(b, texts) ==
    LET i == First(b, "{")
        after == SubSeq(b, i + 1, Len(b))
        j == First(after, "}")
    IN  IF i = 0 THEN b
        ELSE IF j = 0 \/ texts = <<>> THEN SubSeq(b, 1, i - 1)
        ELSE SubSeq(b, 1, i - 1) \o Head(texts)
                \o Fill(SubSeq(after, j + 1, Len(after)), Tail(texts))

\* C14: a run that ends without error returns the body with every block
\* replaced in place by the text its action returned (nothing for no result)
\* and every character outside a block unchanged; it returns no text exactly
\* when that text is empty.
C14_ReplyText ==
    \A t \in TaskIds :
        (Running(t) /\ tasks[t].pc = "returned" /\ tasks[t].result.tag = "Ok") =>
            /\ Len(tasks[t].rets) = NumBlocks(tasks[t].cmd.body)
            /\ tasks[t].result.val = Fill(tasks[t].cmd.body, tasks[t].rets)
            /\ tasks[t].result.some = (tasks[t].result.val # <<>>)

\* C14 witness: the body `x{weather $0}}$` with the action returning "txt" has
\* given "xtxt}$".
C14_Witness ==
    \E t \in TaskIds :
        /\ tasks[t].pc = "returned"
        /\ tasks[t].cmd.body = <<"x", "{", "weather", " ", "$", "0", "}", "}", "$">>
        /\ tasks[t].rets = << <<"txt">> >>
        /\ tasks[t].result = OkSome(<<"x", "txt", "}", "$">>)

-----------------------------------------------------------------------------
(* Claims about the command store and about failures (under Spec).         *)

\* C15: an AddCmd for a (trigger, channel) that has a stored command leaves
\* the whole command store as it is and, unless the store call itself fails,
\* returns the status "command ... already exists", at every such call.
C15_AddExisting ==
    [][\A t \in TaskIds :
          (/\ tasks[t].pc = "run_command"
           /\ tasks[t].cmd.action = "AddCmd"
           /\ tasks[t].args # <<>>
           /\ HasCommand(Head(tasks[t].args), tasks[t].cmd.channel)
           /\ tasks'[t].pc = "returned")
          => /\ commands' = commands
             /\ tasks'[t].result # DBError
                   => tasks'[t].result =
                         OkSome(<<"command \"">> \o Head(tasks[t].args)
                                   \o <<"\" already exists">>)]_vars

\* C15 witness: two chat lines `!addcmd hi {ping}` have both been answered
\* "already exists", and the store is as it was at the start.
C15_Witness ==
    /\ commands = StoredCommands
    /\ \A t \in TaskIds :
          /\ tasks[t].pc = "done" /\ tasks[t].cmd.action = "AddCmd"
          /\ tasks[t].result = OkSome(<<"command \"", "hi", "\" already exists">>)

\* C16 as stated: a chat line's command during which a store call failed has
\* an error reply on the queue.
C16_Original ==
    \A t \in TaskIds :
        (tasks[t].kind = "privmsg" /\ tasks[t].pc = "done" /\ tasks[t].result = DBError)
            => tasks[t].puts >= 1

\* C17 as stated: an invocation that has ended with an error has caused a chat
\* message telling the error.
C17_Original ==
    \A t \in TaskIds :
        (tasks[t].pc \in {"done", "panicked"} /\ tasks[t].result.tag = "Err")
            => \E m \in Caused(t) : m.text = ReplyText(tasks[t].result)

\* C18 as stated, for the chat line `!hit bob`: when every other invocation
\* has a malformed body, the line gets the reply it gets when run alone, the
\* announcement of the timeout.
C18_Original ==
    \A t \in TaskIds :
        (/\ tasks[t].pm.text = <<"!", "hit", " ", "bob">>
         /\ tasks[t].pc = "done" /\ tasks[t].result.tag = "Ok"
         /\ \A u \in TaskIds \ {t} :
               \/ tasks[u].pc = "idle"
               \/ tasks[u].cmd.action = "Custom" /\ ~WellFormed(tasks[u].cmd.body))
        => /\ tasks[t].result = OkSome(<<"bob", " timed out for 10 minutes!">>)
           /\ tasks[t].puts = 1

-----------------------------------------------------------------------------
(* Claims about the event-stream client (under SpecPubSub, and under       *)
(* SpecPubSubLive for what must eventually happen).                        *)

\* The statements of PubSubHandler::start.
InStart == {"lookup", "connect", "listen", "reading"}

\* C19: the loop of the event-stream client never ends; whenever a call of
\* start ends, after a failed attempt at any stage or after the loss of the
\* connection, the loop is at its reconnect delay; the only way out of the
\* delay is a fresh attempt, and the delay is always followed by one.
C19_NeverStops ==
    /\ [](pubsub.pc \in InStart \cup {"sleep"})
    /\ [][/\ (pubsub.pc \in InStart /\ pubsub'.pc \notin InStart)
                => (pubsub'.pc = "sleep" /\ pubsub'.last \in {"failed", "lost"})
          /\ (pubsub.pc = "sleep" /\ pubsub'.pc # "sleep") => pubsub'.pc = "lookup"]_vars
    /\ (pubsub.pc = "sleep") ~> (pubsub.pc = "lookup")

\* C19 witness: a connection was established and lost, two attempts in a row
\* have failed since, and the next attempt has begun.
C19_Witness ==
    /\ pubsub.pc = "lookup"
    /\ pubsub.subs >= 1
    /\ pubsub.fails >= 2

Range(seq) == {seq[i] : i \in 1..Len(seq)}

\* C20: every subscription request carries one topic per channel of the
\* client's channel list, the topic of that channel's id, and a request sent
\* on a later connection carries the same topic set as the one before it.
C20_SameTopics ==
    pubsub.subs >= 1 =>
        /\ Len(pubsub.sent) = Len(pubsub.channels)
        /\ \A i \in 1..Len(pubsub.sent) :
              pubsub.sent[i] = <<"community-points-channel-v1.", <<"id", pubsub.channels[i]>> >>
        /\ pubsub.subs >= 2 => Range(pubsub.sent) = Range(pubsub.prev)

\* C20 witness: with two channels, a second connection has sent its request
\* after the first one was lost, and is being read.
C20_Witness ==
    /\ pubsub.subs >= 2
    /\ pubsub.pc = "reading"
    /\ Len(pubsub.channels) = 2
    /\ Cardinality(Range(pubsub.sent)) = 2

-----------------------------------------------------------------------------
(* Concurrent changes of the command store: MaxCmds lines of a moderator,  *)
(* each adding or deleting a command, have arrived and each has its task.  *)

CmdTexts ==
    {<<"!", "addcmd", " ", "new", " ", "x">>,
     <<"!", "addcmd", " ", "new", " ", "y">>,
     <<"!", "addcmd", " ", "hi", " ", "x">>,
     <<"!", "delcmd", " ", "new">>,
     <<"!", "delcmd", " ", "hi">>}

InitCmds ==
    /\ \E lines \in [1..MaxCmds -> CmdTexts] :
          tasks = [t \in 1..MaxCmds |->
                      [IdleTask EXCEPT
                          !.kind = "privmsg", !.pc = "spawned",
                          !.pm = [channel |-> "chan", login |-> "mod",
                                  badges |-> {"moderator"}, text |-> lines[t]]]]
    /\ commands = StoredCommands
    /\ hitman = {}
    /\ queue = <<>>
    /\ consumer = [pc |-> "recv", msg |-> NoMsg, failed |-> FALSE]
    /\ transport = <<[by |-> "listen_msg", msg |-> Msg("Say", "chan", Started, 0)]>>
    /\ enqueued = <<Msg("Say", "chan", Started, 0)>>
    /\ main = [pc |-> "done", i |-> Len(Channels)]
    /\ pubsub = PubSubOff
    /\ jobs = JobsOff

NextCmds ==
    \E t \in 1..MaxCmds :
        \/ Dispatch(t) \/ GateEval(t) \/ run_command_BuiltIn(t) \/ Respond(t)

SpecCmds == InitCmds /\ [][NextCmds]_vars

-----------------------------------------------------------------------------
(* Concurrent hitman invocations: MaxPending lines `!hit bob` and one line *)
(* `!guard bob` of a moderator have arrived and each has its task.         *)

HitIds == 1..MaxPending

GuardId == MaxPending + 1

InitHitman ==
    /\ tasks = [t \in 1..GuardId |->
                  [IdleTask EXCEPT
                      !.kind = "privmsg", !.pc = "spawned",
                      !.pm = IF t \in HitIds
                             THEN [channel |-> "chan", login |-> "alice", badges |-> {},
                                   text |-> <<"!", "hit", " ", "bob">>]
                             ELSE [channel |-> "chan", login |-> "mod",
                                   badges |-> {"moderator"},
                                   text |-> <<"!", "guard", " ", "bob">>]]]
    /\ commands = StoredCommands
    /\ hitman = {}
    /\ queue = <<>>
    /\ consumer = [pc |-> "recv", msg |-> NoMsg, failed |-> FALSE]
    /\ transport = <<[by |-> "listen_msg", msg |-> Msg("Say", "chan", Started, 0)]>>
    /\ enqueued = <<Msg("Say", "chan", Started, 0)>>
    /\ main = [pc |-> "done", i |-> Len(Channels)]
    /\ pubsub = PubSubOff
    /\ jobs = JobsOff

NextHitman ==
    \E t \in 1..GuardId :
        \/ Dispatch(t) \/ DispatchStoreFails(t) \/ GateEval(t)
        \/ run_command_Custom(t) \/ run(t) \/ ActionReturn(t)
        \/ hitman_add(t) \/ hitman_check(t) \/ hitman_unset(t) \/ bodyguard_set(t)
        \/ ActionStoreFails(t) \/ DirectSend(t) \/ DirectSendFails(t)
        \/ Respond(t)

SpecHitman == InitHitman /\ [][NextHitman]_vars

-----------------------------------------------------------------------------
(* Claims about the flat block grammar (under SpecInterp).                 *)

\* The index in body b of the '}' that closes its first block, 0 for none.
FirstClose(b) ==
    LET i == First(b, "{")
        j == First(SubSeq(b, i + 1, Len(b)), "}")
    IN  IF i = 0 \/ j = 0 THEN 0 ELSE i + j

\* C31 as stated: whenever a block has been opened and a '}' follows, that
\* '}' triggers a registry call and the scan then resumes after it.
C31_Original ==
    \A t \in TaskIds :
        (Running(t) /\ tasks[t].pc = "returned" /\ FirstClose(tasks[t].cmd.body) # 0)
        => /\ Len(tasks[t].calls) >= 1
           /\ \/ tasks[t].result.tag = "Ok"
              \/ Len(Consumed(t)) > FirstClose(tasks[t].cmd.body)

\* The literal text in front of the next '{' of what is left to scan.
OuterText(chars) ==
    IF First(chars, "{") = 0 THEN chars ELSE SubSeq(chars, 1, First(chars, "{") - 1)

\* C31 (amended): the scan stops for a registry call exactly at the first '}'
\* after the '{' that opened the block, a '{' in between being part of the
\* action's name; one call is made there.  When the call returns without
\* error the scan resumes outside any block at the character after that '}':
\* the returned text and the literal text up to the next '{' go to the
\* response.  When it returns an error the run ends with that error and
\* nothing further is scanned.
C31_FlatGrammar ==
    /\ [](\A t \in TaskIds :
             (Running(t) /\ tasks[t].pc \in {"action_run", "action_ret"}) =>
                 /\ Consumed(t)[Len(Consumed(t))] = "}"
                 /\ \A k \in 1..Len(CurrentBlock(t)) : CurrentBlock(t)[k] # "}"
                 /\ tasks[t].it.action = LiteralName(CurrentBlock(t))
                 /\ Len(tasks[t].calls) + (IF tasks[t].pc = "action_run" THEN 1 ELSE 0)
                       = NumBlocks(Consumed(t)))
    /\ [][\A t \in TaskIds :
             (Running(t) /\ tasks[t].pc = "action_ret" /\ tasks'[t] # tasks[t]) =>
                 LET o == tasks[t].outcome
                     rest == tasks[t].it.chars
                 IN  /\ o.tag = "Ok" =>
                           /\ IsPrefix(tasks[t].it.response \o o.val \o OuterText(rest),
                                       tasks'[t].it.response)
                           /\ tasks'[t].it.status # "err" =>
                                 tasks'[t].it.response =
                                     tasks[t].it.response \o o.val \o OuterText(rest)
                           /\ Len(tasks'[t].it.chars) <= Len(rest) - Len(OuterText(rest))
                           /\ Len(tasks'[t].calls) = Len(tasks[t].calls)
                     /\ o.tag = "Err" =>
                           /\ tasks'[t].pc = "returned" /\ tasks'[t].result = o
                           /\ tasks'[t].it.chars = rest
                           /\ tasks'[t].calls = tasks[t].calls]_vars

\* C31 witness: in the body `{{ping}` the first '}' has closed the block that
\* the first '{' opened; the one call named `{ping`, which no action is, and
\* the run has ended with the registry's error.
C31_Witness ==
    \E t \in TaskIds :
        /\ tasks[t].cmd.body = <<"{", "{", "ping", "}">>
        /\ tasks[t].pc = "returned"
        /\ tasks[t].calls = <<[name |-> <<"{", "ping">>, args |-> <<>>]>>
        /\ tasks[t].result = ExecutionError("unknown action")

\* C31 (second witness): after the block of `{ping}}x` returned, the scan went
\* on outside any block: the second '}' is literal text of the response.
C31_WitnessResumed ==
    \E t \in TaskIds :
        /\ tasks[t].cmd.body = <<"{", "ping", "}", "}", "x">>
        /\ tasks[t].pc = "returned"
        /\ tasks[t].result = OkSome(<<"CPU", "}", "x">>)

-----------------------------------------------------------------------------
(* Claims about the command store (under SpecCmds).                        *)

-----------------------------------------------------------------------------
(* Claims about the event-stream client's failures.                        *)

\* C21 as stated: when a heartbeat send of the connection has failed while the
\* client is listening on it, the client leaves that state and reaches the
\* loop's delay before a fresh attempt.
C21_Original ==
    (pubsub.hbfailed /\ pubsub.pc = "reading") ~> (pubsub.pc = "sleep")

\* C34 as stated: a line that starts with the prefix, the prefix alone or
\* the prefix and only whitespace included, is handled without its task
\* ending abnormally.
C34_Original == \A t \in LineIds : tasks[t].pc # "panicked"

\* The heartbeat tasks that write to the present connection.
LivePings == {i \in 1..Len(pubsub.pings) : pubsub.pings[i].live}

\* C33: on every connection the one subscription request, with the topic of
\* every channel, is sent before a heartbeat task exists and before a frame is
\* read; while the client listens exactly one request has been sent on the
\* connection; and a connection whose request fails is left with no
\* heartbeat task started and no frame read.
C33_OneRequestFirst ==
    /\ [](/\ pubsub.pc = "listen"
                => (pubsub.reqs = 0 /\ LivePings = {} /\ pubsub.frames = <<>>)
          /\ pubsub.pc = "reading"
                => /\ pubsub.reqs = 1
                   /\ pubsub.sent = [i \in 1..Len(pubsub.channels) |->
                          Topic(get_users_by_login(pubsub.channels)[i].id)]
          /\ (pubsub.pc \in {"listen", "reading"}
                 /\ (LivePings # {} \/ pubsub.frames # <<>> \/ pubsub.hbfailed))
                => pubsub.reqs = 1)
    /\ [][(pubsub.pc = "listen" /\ pubsub'.pc \notin {"listen", "reading"})
             => /\ pubsub'.pc = "sleep" /\ pubsub'.last = "failed"
                /\ pubsub'.reqs = 0 /\ pubsub'.pings = pubsub.pings
                /\ pubsub'.frames = <<>> /\ pubsub'.sent = pubsub.sent]_vars

\* C33 witness: on a second connection, for two channels, the request was
\* sent, then a heartbeat, and a frame has been read.
C33_Witness ==
    /\ pubsub.pc = "reading" /\ pubsub.up
    /\ pubsub.subs >= 2 /\ pubsub.reqs = 1
    /\ Len(pubsub.sent) = 2
    /\ \E i \in LivePings : pubsub.pings[i].pc = "sleep"
    /\ pubsub.frames # <<>>

\* The read loop is at read.next() on a live connection.
Listening == pubsub.pc = "reading" /\ pubsub.up

\* C22: a frame that is passed over, a frame whose task is spawned, and every
\* step of a frame's task, its failures included, leave the connection as it
\* is: the client stays in Listening with the same heartbeat, and the read
\* loop can take the next frame.
C22_FramesSkipped ==
    /\ [][(Listening /\ (pubsub'.frames # pubsub.frames \/ tasks' # tasks))
             => /\ pubsub'.pc = "reading" /\ pubsub'.up
                /\ pubsub'.pings = pubsub.pings
                /\ Len(pubsub'.frames) >= Len(pubsub.frames)]_vars
    /\ []((Listening /\ Len(pubsub.frames) < MaxFrames)
             => /\ ENABLED read_next
                /\ (\E t \in TaskIds : tasks[t].pc = "idle")
                      => ENABLED (\E t \in TaskIds : read_text(t)))

\* C22 witness: on one connection a text that is not JSON was passed over, the
\* handling of the next frame failed in its task, and the frame after that
\* was handled and answered, the client still listening.
C22_Witness ==
    /\ Listening
    /\ pubsub.frames = <<"garbage", "text", "text">>
    /\ tasks[1].kind = "redeem" /\ tasks[1].pc = "panicked"
    /\ tasks[2].kind = "redeem" /\ tasks[2].pc = "done"
    /\ \E i \in 1..Len(transport) :
          transport[i].by = "handle_msg" /\ transport[i].msg.from = 2

-----------------------------------------------------------------------------
(* Claims about the refresh scheduler (under SpecJobs).                    *)

Loops == 1..Len(jobs.loops)

\* C23 as stated: a channel's refresh loop never terminates, whatever the
\* failure of an iteration.
C23_Original == \A i \in Loops : jobs.loops[i].pc # "panicked"

\* C24 as stated: after a successful refresh the loop issues its next
\* credential request before the reported expiry of the credential stored.
C24_Original ==
    \A i \in Loops :
        (jobs.loops[i].pc = "request" /\ jobs.loops[i].last = "ok")
        => jobs.now < jobs.loops[i].expiry

\* The sleep a loop's own latest iteration calls for.
OwnDelay(loop) == IF loop.last = "ok" THEN loop.expiration_time ELSE RetryDelay

\* C25: once JobRunner::start has returned Ok there is exactly one loop for
\* each row of table `spotify` and none besides; a step of one loop, its
\* failure, its sleep or its end included, changes no other loop and no other
\* channel's row; a loop's sleep is the one its own latest iteration calls
\* for; and whether a loop can make its request, write to the store or end
\* its sleep depends on that loop and the clock alone.
C25_Independent ==
    /\ []((jobs.pc = "started") =>
             /\ \A k \in 1..Len(jobs.spotify) :
                   Cardinality({i \in Loops :
                       jobs.loops[i].channel = jobs.spotify[k].channel}) = 1
             /\ \A i \in Loops : \E k \in 1..Len(jobs.spotify) :
                   /\ jobs.loops[i].channel = jobs.spotify[k].channel
                   /\ jobs.loops[i].refresh_token = jobs.spotify[k].refresh_token)
    /\ [][\A i \in Loops :
             (jobs.pc = "started" /\ jobs'.loops[i] # jobs.loops[i]) =>
                 /\ \A j \in Loops \ {i} : jobs'.loops[j] = jobs.loops[j]
                 /\ \A k \in 1..Len(jobs.spotify) :
                       jobs.spotify[k].channel # jobs.loops[i].channel
                           => jobs'.spotify[k] = jobs.spotify[k]
                 /\ jobs'.now = jobs.now]_vars
    /\ [](\A i \in Loops :
             /\ jobs.loops[i].pc = "sleep"
                   => jobs.loops[i].wake = jobs.loops[i].at + OwnDelay(jobs.loops[i])
             /\ jobs.loops[i].pc = "request" => ENABLED update_token(i)
             /\ jobs.loops[i].pc = "store" => ENABLED update_spotify_token(i)
             /\ (jobs.loops[i].pc = "sleep" /\ jobs.now >= jobs.loops[i].wake)
                   => ENABLED refresh_sleep(i))

\* C25 witness: the loop of the first channel has ended, the loop of the
\* second has failed once, slept the retry delay, and then refreshed and
\* stored its credential.
C25_Witness ==
    /\ Len(jobs.loops) = 2
    /\ jobs.loops[1].pc = "panicked"
    /\ jobs.loops[2].requests = 2 /\ jobs.loops[2].writes = 1
    /\ jobs.loops[2].pc = "sleep" /\ jobs.loops[2].last = "ok"
    /\ jobs.loops[2].at = RetryDelay
    /\ jobs.spotify[1].access_token = <<>>
    /\ jobs.spotify[2].access_token = <<"token", 2>>

-----------------------------------------------------------------------------
(* Claims about concurrent hitman invocations (under SpecHitman).          *)

TimedOutText == <<"bob", " timed out for 10 minutes!">>

\* The invocation of task u has read the flag as unset.
ChoseTimeout(u) == tasks[u].flag = "unset"

\* The invocation of task u has read the flag as set.
Cancelled(u) == tasks[u].flag = "set"

\* The invocation of task v has written the flag back to unset.
Cleared(v) == tasks[v].writes >= 2

\* C28: the pending invocations for one target share one protection flag (one
\* row of the store): an invocation that was waiting when the bodyguard call
\* set the flag goes on to the timeout only when another invocation for the
\* target has cleared the flag in between; and of the invocations that were
\* waiting then, the one that reads the flag first is cancelled.
C28_SharedFlag ==
    /\ \A r1, r2 \in hitman :
          (r1.name = r2.name /\ r1.channel = r2.channel) => r1 = r2
    /\ \A u \in tasks[GuardId].seen :
          ChoseTimeout(u) => \E v \in HitIds \ {u} : Cleared(v)
    /\ \A u \in tasks[GuardId].seen :
          ChoseTimeout(u) =>
              \E v \in HitIds \ {u} : Cancelled(v) \/ (ChoseTimeout(v) /\ v \notin tasks[GuardId].seen)

\* C28 witness: the one bodyguard call was made while both invocations were
\* waiting; one of them was cancelled and replied nothing, the other issued
\* the timeout and replied that bob was timed out.
C28_Witness ==
    \E u, v \in HitIds :
        /\ tasks[GuardId].seen = {u, v} /\ u # v
        /\ tasks[u].pc = "done" /\ tasks[u].result = OkNone /\ tasks[u].rets = << <<>> >>
        /\ tasks[v].pc = "done" /\ tasks[v].result = OkSome(TimedOutText)
        /\ \E i \in 1..Len(transport) :
              transport[i].msg.from = v /\ transport[i].msg.text = <<"/timeout ", "bob", " 600">>
        /\ \A i \in 1..Len(transport) :
              transport[i].msg.from = u => transport[i].msg.kind = "Say"

-----------------------------------------------------------------------------
(* Claims about the router (under Spec).                                   *)

\* The messages on the queue's history that task t has put there.
Enqueued(t) == SelectSeq(enqueued, LAMBDA m : m.from = t)

\* C26: a chat line that does not start with its channel's prefix is ignored:
\* its handling makes no store lookup, no registry call and no store write,
\* and causes no message, and nothing further happens for it.
C26_NoPrefixIgnored ==
    \A t \in TaskIds :
        (tasks[t].kind = "privmsg"
            /\ ~starts_with(tasks[t].pm.text, Prefixes[tasks[t].pm.channel]))
        => /\ tasks[t].pc = "ignored"
           /\ tasks[t].lookups = 0 /\ tasks[t].cmd = NoCmd
           /\ tasks[t].calls = <<>> /\ tasks[t].writes = 0
           /\ tasks[t].puts = 0 /\ Caused(t) = {}

\* C26 witness: the line `say !hi`, which holds the prefix but does not start
\* with it, has been ignored while another line was answered.
C26_Witness ==
    \E t, u \in TaskIds :
        /\ tasks[t].pm.text = <<"say", " ", "!", "hi">> /\ tasks[t].pc = "ignored"
        /\ tasks[u].pc = "done" /\ tasks[u].puts = 1

\* The fixed table of the built-ins: action and permission per trigger.
FixedBuiltIns ==
    [ping |-> <<"Custom", "All">>, addcmd |-> <<"AddCmd", "Mods">>,
     showcmd |-> <<"ShowCmd", "All">>, help |-> <<"ListCmd", "All">>,
     commands |-> <<"ListCmd", "All">>, delcmd |-> <<"DelCmd", "Mods">>,
     join |-> <<"Join", "Super">>, part |-> <<"Part", "Super">>]

\* The trigger of a chat line that has one.
TriggerOf(t) ==
    Head(split_whitespace(strip_prefix(tasks[t].pm.text, Prefixes[tasks[t].pm.channel])))

Resolving(t) ==
    /\ tasks[t].kind = "privmsg"
    /\ tasks[t].pc \notin {"idle", "ignored", "spawned", "panicked"}

\* C27: a trigger that names a built-in resolves to the built-in, with its
\* fixed action and permission, whatever the store holds under that name, and
\* without a query to the store; the store is queried, once, exactly for the
\* triggers that name no built-in.
C27_BuiltInFirst ==
    \A t \in TaskIds : Resolving(t) =>
        LET trigger == TriggerOf(t)
        IN  IF \E n \in DOMAIN FixedBuiltIns : trigger = <<n>>
            THEN LET n == CHOOSE n \in DOMAIN FixedBuiltIns : trigger = <<n>>
                 IN  /\ tasks[t].cmd.action = FixedBuiltIns[n][1]
                     /\ tasks[t].cmd.permissions = FixedBuiltIns[n][2]
                     /\ tasks[t].cmd.action = "Custom"
                           => tasks[t].cmd.body = <<"{", "ping", "}">>
                     /\ tasks[t].lookups = 0
            ELSE tasks[t].lookups = 1

\* C27 witness: with a row named ping in the store (permission mods), `!ping`
\* of a caller without badge has run the built-in and was answered.
C27_Witness ==
    \E t \in TaskIds :
        /\ tasks[t].pm.text = <<"!", "ping">> /\ tasks[t].pm.badges = {}
        /\ HasCommand(<<"ping">>, "chan")
        /\ tasks[t].pc = "done" /\ tasks[t].gate = "allowed"
        /\ tasks[t].result = OkSome(<<"CPU">>)

\* C29 as stated: an invocation the gate has denied ends normally with exactly
\* one reply on the queue, the denial.
C29_Original ==
    \A t \in TaskIds :
        (tasks[t].gate = "denied" /\ tasks[t].pc \notin {"deny"})
        => /\ tasks[t].pc = "done"
           /\ Len(Enqueued(t)) = 1
           /\ Enqueued(t)[1].text = Denial

\* C30: a run of a body that ends without error with an empty response
\* returns no reply, and the invocation puts nothing on the queue (nor, for a
\* redemption, says anything for the response).
C30_EmptyNoReply ==
    \A t \in TaskIds :
        (/\ tasks[t].cmd.action = "Custom"
         /\ tasks[t].pc \in {"returned", "done"}
         /\ tasks[t].it.status = "ok" /\ tasks[t].it.response = <<>>)
        => /\ tasks[t].result = OkNone
           /\ tasks[t].puts = 0 /\ Enqueued(t) = <<>>
           /\ \A i \in 1..Len(transport) :
                 ~(transport[i].by = "handle_msg" /\ transport[i].msg.from = t)

\* C30 witness: `!guard bob`, whose only block returned the empty text, has
\* ended with no reply after its action's own announcement.
C30_Witness ==
    \E t \in TaskIds :
        /\ tasks[t].pm.text = <<"!", "guard", " ", "bob">>
        /\ tasks[t].pc = "done" /\ tasks[t].rets = << <<>> >>
        /\ tasks[t].result = OkNone /\ tasks[t].puts = 0
        /\ Caused(t) # {}

-----------------------------------------------------------------------------
(* Claims about the router's output, the queue and the event stream's     *)
(* tasks.                                                                  *)

\* C35: a chat line makes the router put at most one message on the
\* outbound queue: the denial when the caller is not permitted, else the reply
\* or error reply of the command, and nothing before the command returns.
C35_AtMostOne ==
    \A t \in TaskIds :
        tasks[t].kind = "privmsg"
        => /\ Len(Enqueued(t)) = tasks[t].puts
           /\ tasks[t].puts <= 1
           /\ tasks[t].puts = 1
                 => /\ tasks[t].pc = "done"
                    /\ Enqueued(t)[1].kind = "Reply"
                    /\ Enqueued(t)[1].text =
                          IF tasks[t].gate = "denied" THEN Denial
                          ELSE ReplyText(tasks[t].result)

\* C35 witness: one line was denied and one ended in an error reply, each
\* with its one message on the queue.
C35_Witness ==
    \E t, u \in TaskIds :
        /\ tasks[t].kind = "privmsg" /\ tasks[t].gate = "denied"
        /\ tasks[t].pc = "done" /\ Len(Enqueued(t)) = 1
        /\ tasks[u].kind = "privmsg" /\ tasks[u].gate = "allowed"
        /\ tasks[u].pc = "done" /\ tasks[u].result.tag = "Err"
        /\ Len(Enqueued(u)) = 1

\* What listen_msg has handed to the transport, in order.
Delivered ==
    LET own == SelectSeq(transport, LAMBDA x : x.by = "listen_msg")
    IN  [i \in 1..Len(own) |-> own[i].msg]

\* What the consumer holds between recv and the send.
InHand == IF consumer.pc = "send" THEN <<consumer.msg>> ELSE <<>>

\* A producer at its send on a full queue.
Waiting(t) == Len(queue) = QueueCapacity /\ tasks[t].pc = "deny"

\* Nothing accepted is left in the queue or in the consumer's hand.
Drained == queue = <<>> /\ consumer.pc # "send"

\* C36: with every transport send succeeding and the consumer scheduled
\* fairly, the queue never holds more than its capacity, a producer that
\* finds it full stays at its send until there is room, what was sent, what
\* the consumer holds and what the queue holds are together exactly the
\* accepted messages in their order, and whenever an accepted message is
\* not yet sent the queue is eventually drained, so that every accepted
\* message is eventually sent.
C36_AllSent ==
    /\ [](/\ Len(queue) <= QueueCapacity
          /\ Delivered \o InHand \o queue = enqueued)
    /\ [][\A t \in LineIds : Waiting(t) => tasks'[t] = tasks[t]]_vars
    /\ ~Drained ~> Drained

\* C36 witness: a producer waits at a full queue after the consumer has sent
\* a message of the queue.
C36_Witness ==
    /\ \E t \in LineIds : Waiting(t)
    /\ Len(Delivered) >= 2
    /\ \E t \in LineIds : tasks[t].puts = 1

\* C37 as stated: at most one heartbeat task exists at any time, and when a
\* connection's subscription request has been sent the only heartbeat task
\* is that connection's own.
C37_Original ==
    /\ Len(pubsub.pings) <= 1
    /\ (pubsub.pc = "reading" /\ pubsub.up)
          => \A i \in 1..Len(pubsub.pings) : pubsub.pings[i].live

-----------------------------------------------------------------------------
(* Claims about one hitman invocation and the bodyguard call (under        *)
(* SpecHitman).                                                            *)

\* Task u has sent the timeout command.
SentTimeout(u) ==
    \E i \in 1..Len(transport) :
        /\ transport[i].msg.from = u
        /\ transport[i].msg.text = <<"/timeout ", "bob", " 600">>

\* No other invocation for the target has come to its check of the flag.
OnlyPending(u) == \A v \in HitIds \ {u} : tasks[v].flag = "none"

\* C38: an invocation that was waiting (between add_hitman and its check)
\* when the bodyguard call set the flag, no other invocation for the target
\* having come to its check, reads the flag as set: it never takes the
\* timeout arm and sends no timeout command; when it returns Ok its text is
\* empty and nothing is replied; and once it has written the flag back the
\* flag is cleared.
C38_GuardPrevents ==
    \A u \in tasks[GuardId].seen :
        OnlyPending(u) =>
            /\ tasks[u].flag # "unset"
            /\ tasks[u].pc \notin {"hitman_timeout", "hitman_timed_out"}
            /\ ~SentTimeout(u)
            /\ (tasks[u].pc \in {"returned", "done"} /\ tasks[u].result.tag = "Ok")
                  => /\ tasks[u].rets = << <<>> >>
                     /\ tasks[u].result = OkNone
                     /\ tasks[u].puts = 0
            /\ Cleared(u) => ~get_hitman_protected(User(u), Chan(u))

\* C38 witness: the bodyguard call came while the one invocation was waiting
\* and no other had begun; the invocation is done, replied nothing, sent no
\* timeout command and the flag is cleared.
C38_Witness ==
    \E u \in HitIds :
        /\ tasks[GuardId].seen = {u}
        /\ \A v \in HitIds \ {u} : tasks[v].pc = "spawned"
        /\ tasks[u].pc = "done" /\ tasks[u].result = OkNone
        /\ Cancelled(u) /\ Cleared(u) /\ ~SentTimeout(u)
        /\ \E r \in hitman : r.channel = <<"chan">> /\ r.name = <<"bob">> /\ ~r.protected

\* C39 as stated: after a bodyguard call made while no invocation for the
\* target was pending, an invocation that is called afterwards is not
\* stopped: it does not read the flag as set.
C39_Original ==
    (tasks[GuardId].writes >= 1 /\ tasks[GuardId].seen = {})
    => \A u \in HitIds \ tasks[GuardId].begun : ~Cancelled(u)

====
